---- MODULE Spec2Model ----
(***************************************************************************)
(* A model of calr, the calendar printer of this repository                *)
(* (src/calr/src/lib.rs): the month-grid formatter format_month with its   *)
(* helpers last_day_in_month and print_day, and the driver run that prints *)
(* either one month or the twelve months of a year, three side by side.    *)
(*                                                                         *)
(* Text is modelled character by character: a String is a sequence of      *)
(* one-character strings.  The escape character 0x1b is the token ESC, so  *)
(* a reverse-video span is the four characters ESC [ 7 m, the painted      *)
(* text, and the four characters ESC [ 0 m.                                *)
(***************************************************************************)
EXTENDS Integers, Sequences, FiniteSets, TLC

VARIABLES
    year,        \* Config.year / format_month's year argument
    month,       \* Config.month as an Option (<<>> or <<m>>) in run; <<m>> in format_month
    print_year,  \* format_month's print_year argument
    today,       \* the date read from the clock (run) or passed in (format_month)
    pc,          \* position of the running function
    fm,          \* format_month's locals: top_line, days, line, last, i, panicked
    grid,        \* the Vec<String> format_month returned
    body,        \* run's body: the month-rows, each a Vec<String>
    row,         \* index of the month-row being printed (1-origin)
    lineno,      \* index of the next line to print within the row or the calendar
    stdout,      \* the characters written to standard output, in order
    args,        \* calr's command line: the -y and -m arguments (each an Option<String>)
    stderr,      \* the characters written to standard error, in order
    status,      \* the exit status of the process (Running until it ends)
    fn,          \* the function a call of a pure function applies
    arg,         \* its argument
    ret,         \* its result, once it has returned
    tconfig,     \* tailr's Config: files, tail_mode, quiet
    tfs,         \* the files tailr's arguments name: whether each opens, and its bytes
    tidx,        \* tailr run: the index of the next file (0-origin, as enumerate)
    count_flg,   \* uniqr: config.count
    file_in,     \* uniqr: the input, its bytes and the position of the reader
    count,       \* uniqr run: lines in the current run
    prev_line    \* uniqr run: first line of the current run

cal_vars == <<year, month, print_year, today, fm, grid, body, row, lineno>>
main_vars == <<args, stderr, status>>
fn_vars == <<fn, arg, ret>>
tail_vars == <<tconfig, tfs, tidx>>
uniq_vars == <<count_flg, file_in, count, prev_line>>

vars == <<cal_vars, pc, stdout, main_vars, fn_vars, tail_vars, uniq_vars>>

----------------------------------------------------------------------------
(* Bounds of the model and the program's constants.                        *)

\* The years of the model are a few edge years and the window
\* WindowStart .. WindowStart + YearSpan; 28 consecutive years of one
\* century hold every combination of leap year and weekday of January 1.
YearSpan == 27
WindowStart == 2000

\* parse_year's accepted range.
MinYear == 1
MaxYear == 9999

\* The largest year chrono's NaiveDate represents.
ChronoMaxYear == 262142

EdgeYears == {MinYear, 10, 100, 1900, MaxYear}

Years == EdgeYears \cup (WindowStart .. (WindowStart + YearSpan))

----------------------------------------------------------------------------
(* Option and Result values.                                               *)

None == <<>>
Some(x) == <<x>>
is_some(o) == o # <<>>
unwrap(o) == o[1]

Ok(x) == [ok |-> TRUE, val |-> x]
Err(e) == [ok |-> FALSE, err |-> e]

----------------------------------------------------------------------------
(* The values of the variables a specification does not use.               *)

MainIdle == args = <<>> /\ stderr = <<>> /\ status = <<>>
FnIdle == fn = "" /\ arg = <<>> /\ ret = <<>>
TailIdle == tconfig = <<>> /\ tfs = <<>> /\ tidx = 0
UniqIdle == count_flg = FALSE /\ file_in = <<>> /\ count = 0 /\ prev_line = <<>>

----------------------------------------------------------------------------
(* Strings.                                                                *)

ESC == "ESC"

NL == "\n"

Digits == <<"0", "1", "2", "3", "4", "5", "6", "7", "8", "9">>

\* " ".repeat(n), "   ".repeat(n)
repeat(s, n) == [k \in 1..(n * Len(s)) |-> s[((k - 1) % Len(s)) + 1]]

\* n.to_string() for n >= 0: the decimal digits, no padding.
RECURSIVE to_string(_)
to_string(n) ==
    IF n < 10 THEN <<Digits[n + 1]>>
    ELSE to_string(n \div 10) \o <<Digits[(n % 10) + 1]>>

\* format!("{:>2}", day)
pad2(s) == IF Len(s) < 2 THEN repeat(<<" ">>, 2 - Len(s)) \o s ELSE s

\* ansi_term: Style::new().reverse().paint(s).to_string()
reverse_paint(s) == <<ESC, "[", "7", "m">> \o s \o <<ESC, "[", "0", "m">>

MONTHS == <<
    <<"J", "a", "n", "u", "a", "r", "y">>,
    <<"F", "e", "b", "r", "u", "a", "r", "y">>,
    <<"M", "a", "r", "c", "h">>,
    <<"A", "p", "r", "i", "l">>,
    <<"M", "a", "y">>,
    <<"J", "u", "n", "e">>,
    <<"J", "u", "l", "y">>,
    <<"A", "u", "g", "u", "s", "t">>,
    <<"S", "e", "p", "t", "e", "m", "b", "e", "r">>,
    <<"O", "c", "t", "o", "b", "e", "r">>,
    <<"N", "o", "v", "e", "m", "b", "e", "r">>,
    <<"D", "e", "c", "e", "m", "b", "e", "r">> >>

week == <<"S", "u", " ", "M", "o", " ", "T", "u", " ", "W", "e", " ",
          "T", "h", " ", "F", "r", " ", "S", "a", " ", " ">>

----------------------------------------------------------------------------
(* chrono::NaiveDate, as the calls of lib.rs use it.  A date is a year and *)
(* an ordinal (day of the year), which is how chrono stores it.            *)

is_leap_year(y) == (y % 4 = 0) /\ ((y % 100 # 0) \/ (y % 400 = 0))

days_in_month(y, m) ==
    IF m = 2 THEN (IF is_leap_year(y) THEN 29 ELSE 28)
    ELSE IF m \in {4, 6, 9, 11} THEN 30 ELSE 31

\* The number of days of year y before the first day of month m.
days_before_month(y, m) ==
    <<0, 31, 59, 90, 120, 151, 181, 212, 243, 273, 304, 334>>[m]
        + (IF m > 2 /\ is_leap_year(y) THEN 1 ELSE 0)

days_in_year(y) == IF is_leap_year(y) THEN 366 ELSE 365

\* NaiveDate::from_ymd_opt(y, m, d)
from_ymd_opt(y, m, d) ==
    IF /\ y >= -ChronoMaxYear /\ y <= ChronoMaxYear
       /\ m >= 1 /\ m <= 12
       /\ d >= 1 /\ d <= days_in_month(y, m)
    THEN Some([year |-> y, ordinal |-> days_before_month(y, m) + d])
    ELSE None

\* date.month(), date.day()
date_month(date) ==
    CHOOSE m \in 1..12 :
        /\ days_before_month(date.year, m) < date.ordinal
        /\ date.ordinal <= days_before_month(date.year, m) + days_in_month(date.year, m)

date_day(date) == date.ordinal - days_before_month(date.year, date_month(date))

\* date.pred_opt()
pred_opt(date) ==
    IF date.ordinal > 1 THEN Some([year |-> date.year, ordinal |-> date.ordinal - 1])
    ELSE IF date.year - 1 >= -ChronoMaxYear
         THEN Some([year |-> date.year - 1, ordinal |-> days_in_year(date.year - 1)])
         ELSE None

\* Mutant: the weekday counted from Monday.
num_days_from_monday(date) ==
    LET y1 == date.year - 1
        days == (y1 * 365) + (y1 \div 4) - (y1 \div 100) + (y1 \div 400) + date.ordinal
    IN  (days + 6) % 7

\* date.weekday().num_days_from_sunday(): 0 = Sunday .. 6 = Saturday.
\* Day 1 of the proleptic Gregorian calendar (0001-01-01) is a Monday.
num_days_from_sunday(date) ==
    LET y1 == date.year - 1
        days == (y1 * 365) + (y1 \div 4) - (y1 \div 100) + (y1 \div 400) + date.ordinal
    IN  days % 7

Sat == 6

----------------------------------------------------------------------------
(* last_day_in_month and print_day.                                        *)

\* year.to_string() for an i32.
i32_to_string(n) == IF n < 0 THEN <<"-">> \o to_string(-n) ELSE to_string(n)

\* Mutant: December is rolled over to January of the same year.
last_day_in_month_same_year(y, m) ==
    LET ym == IF m = 12 THEN <<y, 1>> ELSE <<y, m + 1>>
        first == from_ymd_opt(ym[1], ym[2], 1)
    IN  IF ~is_some(first) THEN Err("err: NaiveDate")
        ELSE IF ~is_some(pred_opt(unwrap(first))) THEN Err("err: NaiveDate pred")
        ELSE Ok(unwrap(pred_opt(unwrap(first))))

\* Mutant: December is not rolled over to January of the next year.
last_day_in_month_no_rollover(y, m) ==
    LET first == from_ymd_opt(y, m + 1, 1)
    IN  IF ~is_some(first) THEN Err("err: NaiveDate")
        ELSE IF ~is_some(pred_opt(unwrap(first))) THEN Err("err: NaiveDate pred")
        ELSE Ok(unwrap(pred_opt(unwrap(first))))

\* The first day of the following month, then the day before it.
last_day_in_month(y, m) ==
    LET ym == IF m = 12 THEN <<y + 1, 1>> ELSE <<y, m + 1>>
        first == from_ymd_opt(ym[1], ym[2], 1)
    IN  IF ~is_some(first) THEN Err("err: NaiveDate")
        ELSE IF ~is_some(pred_opt(unwrap(first))) THEN Err("err: NaiveDate pred")
        ELSE Ok(unwrap(pred_opt(unwrap(first))))

\* Mutant: the year of today is not compared.
print_day_any_year(td, y, m, day) ==
    LET num_str == to_string(day)
    IN  IF date_month(td) = m /\ date_day(td) = day
        THEN IF Len(num_str) = 1
             THEN reverse_paint(<<" ">> \o num_str)
             ELSE reverse_paint(num_str)
        ELSE pad2(num_str)

\* print_day that compares the day of the month only.
print_day_any_month(td, y, m, day) ==
    LET num_str == to_string(day)
    IN  IF date_day(td) = day
        THEN IF Len(num_str) = 1
             THEN reverse_paint(<<" ">> \o num_str)
             ELSE reverse_paint(num_str)
        ELSE pad2(num_str)

\* print_day that paints the digits only.
print_day_digits_only(td, y, m, day) ==
    LET num_str == to_string(day)
    IN  IF td.year = y /\ date_month(td) = m /\ date_day(td) = day
        THEN IF Len(num_str) = 1
             THEN <<" ">> \o reverse_paint(num_str)
             ELSE reverse_paint(num_str)
        ELSE pad2(num_str)

print_day(td, y, m, day) ==
    LET num_str == to_string(day)
    IN  IF td.year = y /\ date_month(td) = m /\ date_day(td) = day
        THEN IF Len(num_str) = 1
             THEN reverse_paint(<<" ">> \o num_str)
             ELSE reverse_paint(num_str)
        ELSE pad2(num_str)

----------------------------------------------------------------------------
(* format_month, in three parts: the code before the loop over the days,   *)
(* one iteration of the loop, and the code after it.  The locals are a     *)
(* record; panicked records a failed unwrap, an index out of range or an   *)
(* unsigned subtraction below zero.                                        *)

NoDate == [year |-> 0, ordinal |-> 0]

fm_idle ==
    [top_line |-> <<>>, days |-> <<>>, line |-> <<>>, last |-> NoDate,
     i |-> 0, panicked |-> FALSE]

fm_panic == [fm_idle EXCEPT !.panicked = TRUE]

\* Mutant: the year is zero-padded to 4 digits.
fm_title_padded(y, m, py) ==
    IF py THEN MONTHS[m] \o <<" ">> \o repeat(<<"0">>, 4 - Len(i32_to_string(y)))
                   \o i32_to_string(y)
    ELSE MONTHS[m]

\* The title text.
fm_title(y, m, py) ==
    IF py THEN MONTHS[m] \o <<" ">> \o i32_to_string(y) ELSE MONTHS[m]

\* Mutant: the left padding as the stale comment above the code has it.
left_pad_half(len) == 11 - (len \div 2) - 1

left_pad_no_margin(len) == 11 - ((len + 1) \div 2)

\* The two padding counts of the title line, before any check for underflow.
left_pad(len) == 11 - ((len + 1) \div 2) - 1
right_pad(len) == 12 + ((len + 1) \div 2) - len

\* The title line.
fm_top_line(title) ==
    repeat(<<" ">>, left_pad(Len(title))) \o title
        \o repeat(<<" ">>, right_pad(Len(title)))

\* Lines 169-191: title, top_line, days, line, last_day.
fm_begin(y, m, py, td) ==
    IF (m - 1 < 0) \/ (m - 1 >= Len(MONTHS)) THEN fm_panic
    ELSE LET title == fm_title(y, m, py)
             len == Len(title)
             last_day == last_day_in_month(y, m)
         IN  IF (left_pad(len) < 0) \/ (right_pad(len) < 0) THEN fm_panic
             ELSE IF ~last_day.ok THEN fm_panic
             ELSE [top_line |-> fm_top_line(title), days |-> <<>>, line |-> <<>>,
                   last |-> last_day.val, i |-> 1, panicked |-> FALSE]

\* The loop body without the branch for the last day.
fm_day_no_last_branch(l, y, m, td) ==
    LET i == l.i
        date == from_ymd_opt(y, m, i)
    IN  IF ~is_some(date) THEN [l EXCEPT !.panicked = TRUE]
        ELSE
        LET weekday == num_days_from_sunday(unwrap(date))
            cell == print_day(td, y, m, i) \o <<" ">>
            line == IF i = 1 THEN repeat(<<" ", " ", " ">>, weekday) \o cell
                    ELSE l.line \o cell
        IN  IF weekday = Sat
            THEN [l EXCEPT !.days = Append(l.days, line \o <<" ">>),
                           !.line = <<>>, !.i = i + 1]
            ELSE [l EXCEPT !.line = line, !.i = i + 1]

\* Lines 193-219: the loop body for day l.i.
fm_day(l, y, m, td) ==
    LET i == l.i
        date == from_ymd_opt(y, m, i)
    IN  IF ~is_some(date) THEN [l EXCEPT !.panicked = TRUE]
        ELSE
        LET weekday == num_days_from_sunday(unwrap(date))
            cell == print_day(td, y, m, i) \o <<" ">>
        IN  IF i = 1 THEN
                LET line == repeat(<<" ", " ", " ">>, weekday) \o cell
                IN  IF weekday = Sat
                    THEN [l EXCEPT !.days = Append(l.days, line \o <<" ">>),
                                   !.line = <<>>, !.i = i + 1]
                    ELSE [l EXCEPT !.line = line, !.i = i + 1]
            ELSE IF i = date_day(l.last) THEN
                LET line == l.line \o cell
                    offset == 6 - weekday
                IN  [l EXCEPT !.days = Append(l.days,
                                  line \o repeat(<<" ", " ", " ">>, offset) \o <<" ">>),
                              !.line = <<>>, !.i = i + 1]
            ELSE
                LET line == l.line \o cell
                IN  IF weekday = Sat
                    THEN [l EXCEPT !.days = Append(l.days, line \o <<" ">>),
                                   !.line = <<>>, !.i = i + 1]
                    ELSE [l EXCEPT !.line = line, !.i = i + 1]

\* Lines 221-229: pad the body with one blank row, assemble the result.
fm_end(l) ==
    LET days == IF Len(l.days) < 6 THEN Append(l.days, repeat(<<" ">>, 22)) ELSE l.days
    IN  <<l.top_line, week>> \o days

\* The loop run to its end.
RECURSIVE fm_loop(_, _, _, _)
fm_loop(l, y, m, td) ==
    IF l.panicked \/ l.i > date_day(l.last) THEN l
    ELSE fm_loop(fm_day(l, y, m, td), y, m, td)

format_month_locals(y, m, py, td) == fm_loop(fm_begin(y, m, py, td), y, m, td)

format_month_panics(y, m, py, td) == format_month_locals(y, m, py, td).panicked

format_month(y, m, py, td) == fm_end(format_month_locals(y, m, py, td))

----------------------------------------------------------------------------
(* The dates the clock may show, relative to the displayed month: its      *)
(* first and last day, days of one and of two digits, and dates of another *)
(* month, of another year, and the date 0000-01-01 the unit tests pass.    *)

DatesOfMonth(y, m) ==
    {unwrap(from_ymd_opt(y, m, d)) : d \in {1, 9, 10, 20, days_in_month(y, m)}}

OtherDates(y, m) ==
    {unwrap(from_ymd_opt(0, 1, 1)),
     unwrap(from_ymd_opt(y, (m % 12) + 1, 7)),
     unwrap(from_ymd_opt(y + 1, m, 7))}

Todays(y, m) == DatesOfMonth(y, m) \cup OtherDates(y, m)

----------------------------------------------------------------------------
(* format_month called on any valid input, run one loop iteration at a     *)
(* time.                                                                   *)

InitMonth ==
    /\ year \in Years
    /\ month \in {Some(m) : m \in 1..12}
    /\ print_year \in BOOLEAN
    /\ today \in Todays(year, unwrap(month))
    /\ pc = "call"
    /\ fm = fm_idle
    /\ grid = <<>>
    /\ body = <<>>
    /\ row = 0
    /\ lineno = 0
    /\ stdout = <<>>
    /\ MainIdle /\ FnIdle /\ TailIdle
    /\ UniqIdle

FmCall ==
    /\ pc = "call"
    /\ fm' = fm_begin(year, unwrap(month), print_year, today)
    /\ pc' = IF fm'.panicked THEN "panic" ELSE "loop"
    /\ UNCHANGED <<year, month, print_year, today, grid, body, row, lineno, stdout>>
    /\ UNCHANGED <<main_vars, fn_vars, tail_vars>>
    /\ UNCHANGED uniq_vars

FmDay ==
    /\ pc = "loop"
    /\ fm.i <= date_day(fm.last)
    /\ fm' = fm_day(fm, year, unwrap(month), today)
    /\ pc' = IF fm'.panicked THEN "panic" ELSE "loop"
    /\ UNCHANGED <<year, month, print_year, today, grid, body, row, lineno, stdout>>
    /\ UNCHANGED <<main_vars, fn_vars, tail_vars>>
    /\ UNCHANGED uniq_vars

FmReturn ==
    /\ pc = "loop"
    /\ fm.i > date_day(fm.last)
    /\ grid' = fm_end(fm)
    /\ pc' = "done"
    /\ UNCHANGED <<year, month, print_year, today, fm, body, row, lineno, stdout>>
    /\ UNCHANGED <<main_vars, fn_vars, tail_vars>>
    /\ UNCHANGED uniq_vars

NextMonth == FmCall \/ FmDay \/ FmReturn

SpecMonth == InitMonth /\ [][NextMonth]_vars

----------------------------------------------------------------------------
(* run: the year view prints a header and four month-rows of three months  *)
(* side by side; the month view prints one grid.  Standard output is the   *)
(* stream of characters written, each println! ending in a newline.        *)

\* println!("{}", s)
println(out, s) == out \o s \o <<NL>>

\* Lines 63-68: the header of the year view.
run_header(y) ==
    repeat(<<" ">>, 28) \o i32_to_string(y)
        \o repeat(<<" ">>, 66 - 28 - Len(i32_to_string(y)))

\* acc.into_iter().zip(row.into_iter()).map(|(a, b)| a + &b).collect_vec():
\* zip stops at the end of the shorter of the two.
\* zip that loses the last pair.
zip_concat_drop_last(acc, r) ==
    [k \in 1..((IF Len(acc) < Len(r) THEN Len(acc) ELSE Len(r)) - 1) |-> acc[k] \o r[k]]

zip_concat(acc, r) ==
    [k \in 1..(IF Len(acc) < Len(r) THEN Len(acc) ELSE Len(r)) |-> acc[k] \o r[k]]

\* reduce over one chunk of three months, chunk c counted from 0.
three_month(y, td, c) ==
    zip_concat(zip_concat(format_month(y, (3 * c) + 1, FALSE, td),
                          format_month(y, (3 * c) + 2, FALSE, td)),
               format_month(y, (3 * c) + 3, FALSE, td))

\* Lines 70-84: the twelve months in chunks of three.
run_body(y, td) == [c \in 1..4 |-> three_month(y, td, c - 1)]

\* The dates the clock may show in run.
RunTodays(y, mo) ==
    IF mo = None
    THEN {unwrap(from_ymd_opt(0, 1, 1)),
          unwrap(from_ymd_opt(y, 2, 9)),
          unwrap(from_ymd_opt(y, 12, 31))}
    ELSE Todays(y, unwrap(mo))

InitRun ==
    /\ year \in Years
    /\ month \in {None} \cup {Some(m) : m \in 1..12}
    /\ print_year = FALSE
    /\ today \in RunTodays(year, month)
    /\ pc = "run"
    /\ fm = fm_idle
    /\ grid = <<>>
    /\ body = <<>>
    /\ row = 0
    /\ lineno = 0
    /\ stdout = <<>>
    /\ MainIdle /\ FnIdle /\ TailIdle
    /\ UniqIdle

\* None => println!("{}", header)
PrintHeader ==
    /\ pc = "run"
    /\ month = None
    /\ stdout' = println(stdout, run_header(year))
    /\ pc' = "collect"
    /\ UNCHANGED <<year, month, print_year, today, fm, grid, body, row, lineno>>
    /\ UNCHANGED <<main_vars, fn_vars, tail_vars>>
    /\ UNCHANGED uniq_vars

\* let body = ... .collect::<Vec<_>>()
CollectBody ==
    /\ pc = "collect"
    /\ IF \E m \in 1..12 : format_month_panics(year, m, FALSE, today)
       THEN pc' = "panic" /\ UNCHANGED <<body, row, lineno>>
       ELSE /\ body' = run_body(year, today)
            /\ row' = 1
            /\ lineno' = 1
            /\ pc' = "print"
    /\ UNCHANGED <<year, month, print_year, today, fm, grid, stdout>>
    /\ UNCHANGED <<main_vars, fn_vars, tail_vars>>
    /\ UNCHANGED uniq_vars

\* three_month.iter().for_each(|line| println!("{}", line))
PrintLine ==
    /\ pc = "print"
    /\ row <= Len(body)
    /\ lineno <= Len(body[row])
    /\ stdout' = println(stdout, body[row][lineno])
    /\ lineno' = lineno + 1
    /\ UNCHANGED <<year, month, print_year, today, pc, fm, grid, body, row>>
    /\ UNCHANGED <<main_vars, fn_vars, tail_vars>>
    /\ UNCHANGED uniq_vars

\* Mutant: a blank line only between month-rows, none after the last.
PrintBlankBetween ==
    /\ pc = "print"
    /\ row <= Len(body)
    /\ lineno > Len(body[row])
    /\ stdout' = IF row < Len(body) THEN println(stdout, <<>>) ELSE stdout
    /\ row' = row + 1
    /\ lineno' = 1
    /\ UNCHANGED <<year, month, print_year, today, pc, fm, grid, body>>
    /\ UNCHANGED <<main_vars, fn_vars, tail_vars>>
    /\ UNCHANGED uniq_vars

\* println!("") after the lines of a month-row
PrintBlank ==
    /\ pc = "print"
    /\ row <= Len(body)
    /\ lineno > Len(body[row])
    /\ stdout' = println(stdout, <<>>)
    /\ row' = row + 1
    /\ lineno' = 1
    /\ UNCHANGED <<year, month, print_year, today, pc, fm, grid, body>>
    /\ UNCHANGED <<main_vars, fn_vars, tail_vars>>
    /\ UNCHANGED uniq_vars

\* Some(month) => let calendar = format_month(config.year, month, true, today)
FormatOne ==
    /\ pc = "run"
    /\ month # None
    /\ print_year' = TRUE
    /\ IF format_month_panics(year, unwrap(month), TRUE, today)
       THEN pc' = "panic" /\ UNCHANGED <<grid, lineno>>
       ELSE /\ grid' = format_month(year, unwrap(month), TRUE, today)
            /\ lineno' = 1
            /\ pc' = "print_month"
    /\ UNCHANGED <<year, month, today, fm, body, row, stdout>>
    /\ UNCHANGED <<main_vars, fn_vars, tail_vars>>
    /\ UNCHANGED uniq_vars

\* calendar.iter().for_each(|line| println!("{}", line))
PrintMonthLine ==
    /\ pc = "print_month"
    /\ lineno <= Len(grid)
    /\ stdout' = println(stdout, grid[lineno])
    /\ lineno' = lineno + 1
    /\ UNCHANGED <<year, month, print_year, today, pc, fm, grid, body, row>>
    /\ UNCHANGED <<main_vars, fn_vars, tail_vars>>
    /\ UNCHANGED uniq_vars

\* Ok(())
RunReturn ==
    /\ \/ pc = "print" /\ row > Len(body)
       \/ pc = "print_month" /\ lineno > Len(grid)
    /\ pc' = "done"
    /\ UNCHANGED <<year, month, print_year, today, fm, grid, body, row, lineno, stdout>>
    /\ UNCHANGED <<main_vars, fn_vars, tail_vars>>
    /\ UNCHANGED uniq_vars

NextRun ==
    \/ PrintHeader
    \/ CollectBody
    \/ PrintLine
    \/ PrintBlank
    \/ FormatOne
    \/ PrintMonthLine
    \/ RunReturn

SpecRun == InitRun /\ [][NextRun]_vars

\* The strings of a sequence joined (print! of each in turn, join("")).
RECURSIVE concat(_)
concat(ss) == IF ss = <<>> THEN <<>> ELSE Head(ss) \o concat(Tail(ss))

----------------------------------------------------------------------------
(* Integers read from text (str::parse).  TLC's integers are 32 bits wide, *)
(* so a parsed integer is kept in decimal: neg says whether it is below    *)
(* zero and mag holds the digits of its magnitude without leading zeros    *)
(* ("0" for zero).  A type is given by its largest magnitudes above and    *)
(* below zero; it is unsigned when the latter is "0".                      *)

IsDigit(c) == \E k \in 1..10 : Digits[k] = c

digit_val(c) == (CHOOSE k \in 1..10 : Digits[k] = c) - 1

RECURSIVE strip_zeros(_)
strip_zeros(ds) ==
    IF Len(ds) > 1 /\ Head(ds) = "0" THEN strip_zeros(Tail(ds)) ELSE ds

\* a < b for two magnitudes of the same length, digit by digit
RECURSIVE mag_lt_same(_, _)
mag_lt_same(a, b) ==
    IF a = <<>> THEN FALSE
    ELSE IF Head(a) # Head(b) THEN digit_val(Head(a)) < digit_val(Head(b))
    ELSE mag_lt_same(Tail(a), Tail(b))

mag_le(a, b) ==
    \/ Len(a) < Len(b)
    \/ Len(a) = Len(b) /\ (a = b \/ mag_lt_same(a, b))

U32_MAX == <<"4", "2", "9", "4", "9", "6", "7", "2", "9", "5">>
I32_MAX == <<"2", "1", "4", "7", "4", "8", "3", "6", "4", "7">>
I32_MIN_MAG == <<"2", "1", "4", "7", "4", "8", "3", "6", "4", "8">>
I64_MAX == <<"9", "2", "2", "3", "3", "7", "2", "0", "3", "6", "8", "5", "4", "7", "7", "5", "8", "0", "7">>
I64_MIN_MAG == <<"9", "2", "2", "3", "3", "7", "2", "0", "3", "6", "8", "5", "4", "7", "7", "5", "8", "0", "8">>
USIZE_MAX == <<"1", "8", "4", "4", "6", "7", "4", "4", "0", "7", "3", "7", "0", "9", "5", "5", "1", "6", "1", "5">>
Zero == <<"0">>

\* <T as FromStr>::from_str(s) for an integer type T
from_str(s, max_pos, max_neg) ==
    LET signed == max_neg # Zero
        has_sign == s # <<>> /\ (Head(s) = "+" \/ (signed /\ Head(s) = "-"))
        ds == IF has_sign THEN Tail(s) ELSE s
        neg == has_sign /\ Head(s) = "-"
        mag == strip_zeros(ds)
    IN  IF ds = <<>> \/ (\E k \in 1..Len(ds) : ~IsDigit(ds[k])) THEN Err("ParseIntError")
        ELSE IF ~mag_le(mag, IF neg THEN max_neg ELSE max_pos) THEN Err("ParseIntError")
        ELSE Ok([neg |-> neg /\ mag # Zero, mag |-> mag])

\* The value as a TLC integer, for magnitudes of at most 9 digits.
RECURSIVE mag_int(_)
mag_int(ds) ==
    IF ds = <<>> THEN 0
    ELSE (10 * mag_int(SubSeq(ds, 1, Len(ds) - 1))) + digit_val(ds[Len(ds)])

dec_int(v) == IF v.neg THEN -mag_int(v.mag) ELSE mag_int(v.mag)

\* v <= n and v >= n for a parsed integer v and a small constant n >= 0
dec_le_int(v, n) == v.neg \/ (Len(v.mag) <= 9 /\ mag_int(v.mag) <= n)
dec_ge_int(v, n) == ~v.neg /\ (Len(v.mag) > 9 \/ mag_int(v.mag) >= n)

\* format!("{}", v)
dec_to_string(v) == IF v.neg THEN <<"-">> \o v.mag ELSE v.mag

----------------------------------------------------------------------------
(* The regular expressions parse_month builds (regex::RegexBuilder with    *)
(* case_insensitive): literals, '.', a postfix '*', alternatives separated *)
(* by '|', and '^' for the start of the text.  A '[' that no ']' closes    *)
(* and a '*' with nothing before it are rejected when the pattern is       *)
(* built.  Other syntax of the regex crate is outside this model.          *)

UpperAlpha == <<"A", "B", "C", "D", "E", "F", "G", "H", "I", "J", "K", "L", "M", "N", "O", "P", "Q", "R", "S", "T", "U", "V", "W", "X", "Y", "Z">>
LowerAlpha == <<"a", "b", "c", "d", "e", "f", "g", "h", "i", "j", "k", "l", "m", "n", "o", "p", "q", "r", "s", "t", "u", "v", "w", "x", "y", "z">>

to_lower(c) ==
    IF \E k \in 1..26 : UpperAlpha[k] = c
    THEN LowerAlpha[CHOOSE k \in 1..26 : UpperAlpha[k] = c]
    ELSE c

\* The alternatives of a pattern: the parts between '|'.
RECURSIVE re_split(_, _)
re_split(p, cur) ==
    IF p = <<>> THEN <<cur>>
    ELSE IF Head(p) = "|" THEN <<cur>> \o re_split(Tail(p), <<>>)
    ELSE re_split(Tail(p), Append(cur, Head(p)))

\* The items of one alternative: an atom, repeated or not.
RECURSIVE re_items(_)
re_items(p) ==
    IF p = <<>> THEN <<>>
    ELSE IF Len(p) > 1 /\ p[2] = "*"
         THEN LET rest == SubSeq(p, 3, Len(p))
              IN  IF rest # <<>> /\ Head(rest) = "*"
                  THEN re_items(<<Head(p)>> \o rest)
                  ELSE <<[atom |-> Head(p), star |-> TRUE]>> \o re_items(rest)
         ELSE <<[atom |-> Head(p), star |-> FALSE]>> \o re_items(Tail(p))

\* RegexBuilder::new(p).case_insensitive(true).build()
re_build(p) ==
    LET alts == re_split(p, <<>>)
    IN  IF \E k \in 1..Len(p) : p[k] = "[" /\ ~(\E j \in (k + 1)..Len(p) : p[j] = "]")
        THEN Err("regex::Error")
        ELSE IF \E k \in 1..Len(alts) : alts[k] # <<>> /\ Head(alts[k]) = "*"
        THEN Err("regex::Error")
        ELSE Ok([k \in 1..Len(alts) |-> re_items(alts[k])])

re_char_matches(atom, c) == atom = "." \/ to_lower(atom) = to_lower(c)

\* Whether the items match the text from position pos on (1-origin).
RECURSIVE re_match_items(_, _, _)
re_match_items(items, text, pos) ==
    IF items = <<>> THEN TRUE
    ELSE LET it == Head(items)
         IN  IF it.atom = "^" THEN pos = 1 /\ re_match_items(Tail(items), text, pos)
             ELSE IF it.star
             THEN \/ re_match_items(Tail(items), text, pos)
                  \/ /\ pos <= Len(text)
                     /\ re_char_matches(it.atom, text[pos])
                     /\ re_match_items(items, text, pos + 1)
             ELSE /\ pos <= Len(text)
                  /\ re_char_matches(it.atom, text[pos])
                  /\ re_match_items(Tail(items), text, pos + 1)

\* re.is_match(text): some alternative matches somewhere in the text.
re_is_match(re, text) ==
    \E k \in 1..Len(re) : \E start \in 1..(Len(text) + 1) :
        re_match_items(re[k], text, start)

----------------------------------------------------------------------------
(* calr: parse_int, parse_year, parse_month.                               *)

\* parse_int::<i32>(val)
parse_int_i32(val) ==
    LET r == from_str(val, I32_MAX, I32_MIN_MAG)
    IN  IF r.ok THEN r ELSE Err(<<"I", "n", "v", "a", "l", "i", "d", " ", "i", "n", "t", "e", "g", "e", "r", " ", "\"">> \o val \o <<"\"">>)

\* parse_int::<u32>(val)
parse_int_u32(val) ==
    LET r == from_str(val, U32_MAX, Zero)
    IN  IF r.ok THEN r ELSE Err(<<"I", "n", "v", "a", "l", "i", "d", " ", "i", "n", "t", "e", "g", "e", "r", " ", "\"">> \o val \o <<"\"">>)

parse_year(s) ==
    LET r == parse_int_i32(s)
    IN  IF r.ok /\ dec_ge_int(r.val, MinYear) /\ dec_le_int(r.val, MaxYear)
        THEN Ok(dec_int(r.val))
        ELSE IF r.ok
        THEN Err(<<"y", "e", "a", "r", " ", "\"">> \o dec_to_string(r.val)
                     \o <<"\"", " ", "n", "o", "t", " ", "i", "n", " ", "t", "h", "e", " ", "r", "a", "n", "g", "e", " ", "1", " ", "t", "h", "r", "o", "u", "g", "h", " ", "9", "9", "9", "9">>)
        ELSE r

\* The months whose name the pattern matches, in the order of MONTHS.
filtered_month(re) == SelectSeq([k \in 1..Len(MONTHS) |-> k],
                                LAMBDA k : re_is_match(re, MONTHS[k]))

\* parse_month taking the first month that matches, however many do.
parse_month_first_match(s) ==
    LET r == parse_int_u32(s)
    IN  IF r.ok /\ dec_ge_int(r.val, 1) /\ dec_le_int(r.val, 12)
        THEN Ok(dec_int(r.val))
        ELSE IF r.ok
        THEN Err(<<"m", "o", "n", "t", "h", " ", "\"">> \o dec_to_string(r.val)
                     \o <<"\"", " ", "n", "o", "t", " ", "i", "n", " ", "t", "h", "e", " ", "r", "a", "n", "g", "e", " ", "1", " ", "t", "h", "r", "o", "u", "g", "h", " ", "1", "2">>)
        ELSE LET re == re_build(<<"^">> \o s)
             IN  IF ~re.ok THEN Err(<<"I", "n", "v", "a", "l", "i", "d", " ", "p", "a", "t", "t", "e", "r", "n", " ", "\"">> \o s \o <<"\"">>)
                 ELSE IF Len(filtered_month(re.val)) >= 1
                 THEN Ok(filtered_month(re.val)[1])
                 ELSE Err(<<"I", "n", "v", "a", "l", "i", "d", " ", "m", "o", "n", "t", "h", " ", "\"">> \o s \o <<"\"">>)

parse_month(s) ==
    LET r == parse_int_u32(s)
    IN  IF r.ok /\ dec_ge_int(r.val, 1) /\ dec_le_int(r.val, 12)
        THEN Ok(dec_int(r.val))
        ELSE IF r.ok
        THEN Err(<<"m", "o", "n", "t", "h", " ", "\"">> \o dec_to_string(r.val)
                     \o <<"\"", " ", "n", "o", "t", " ", "i", "n", " ", "t", "h", "e", " ", "r", "a", "n", "g", "e", " ", "1", " ", "t", "h", "r", "o", "u", "g", "h", " ", "1", "2">>)
        ELSE LET re == re_build(<<"^">> \o s)
             IN  IF ~re.ok THEN Err(<<"I", "n", "v", "a", "l", "i", "d", " ", "p", "a", "t", "t", "e", "r", "n", " ", "\"">> \o s \o <<"\"">>)
                 ELSE IF Len(filtered_month(re.val)) = 1
                 THEN Ok(filtered_month(re.val)[1])
                 ELSE Err(<<"I", "n", "v", "a", "l", "i", "d", " ", "m", "o", "n", "t", "h", " ", "\"">> \o s \o <<"\"">>)

----------------------------------------------------------------------------
(* tailr: TakeValue, parse_num, get_start_index.  The i64 inside TakeNum   *)
(* is kept in decimal, as from_str returns it.                             *)

PlusZero == [tag |-> "PlusZero", num |-> [neg |-> FALSE, mag |-> Zero]]
TakeNum(v) == [tag |-> "TakeNum", num |-> v]

\* The decimal form of a small integer.
dec_of_int(n) == [neg |-> n < 0, mag |-> to_string(IF n < 0 THEN -n ELSE n)]

\* NUM_RE.captures(val) for ^([+-])?(\d+)$ : the sign, if any, and the digits.
num_re_captures(val) ==
    LET has_sign == val # <<>> /\ Head(val) \in {"+", "-"}
        ds == IF has_sign THEN Tail(val) ELSE val
    IN  IF ds # <<>> /\ (\A k \in 1..Len(ds) : IsDigit(ds[k]))
        THEN Some([sign |-> IF has_sign THEN Some(<<Head(val)>>) ELSE None, digits |-> ds])
        ELSE None

\* parse_num reading an unsigned number as positive.
parse_num_default_plus(val) ==
    LET caps == num_re_captures(val)
    IN  IF caps = None THEN Err(val)
        ELSE LET sign == IF unwrap(caps).sign = None THEN <<"+">> ELSE unwrap(unwrap(caps).sign)
                 num == from_str(sign \o unwrap(caps).digits, I64_MAX, I64_MIN_MAG)
             IN  IF ~num.ok THEN Err(val)
                 ELSE IF sign = <<"+">> /\ num.val.mag = Zero THEN Ok(PlusZero)
                 ELSE Ok(TakeNum(num.val))

parse_num(val) ==
    LET caps == num_re_captures(val)
    IN  IF caps = None THEN Err(val)
        ELSE LET sign == IF unwrap(caps).sign = None THEN <<"-">> ELSE unwrap(unwrap(caps).sign)
                 num == from_str(sign \o unwrap(caps).digits, I64_MAX, I64_MIN_MAG)
             IN  IF ~num.ok THEN Err(val)
                 ELSE IF sign = <<"+">> /\ num.val.mag = Zero THEN Ok(PlusZero)
                 ELSE Ok(TakeNum(num.val))

\* get_start_index computing total + num without the + 1.
get_start_index_no_plus_one(take_val, total) ==
    LET num == take_val.num
    IN  IF take_val.tag = "PlusZero" THEN Some(1)
        ELSE IF num.mag = Zero THEN None
        ELSE IF ~num.neg
        THEN IF dec_le_int(num, total) THEN Some(dec_int(num)) ELSE None
        ELSE IF Len(num.mag) > 9 \/ total + dec_int(num) <= 0 THEN Some(1)
        ELSE Some(total + dec_int(num))

\* get_start_index, for totals TLC's integers can hold; a num of more than
\* 9 digits is beyond every such total.
get_start_index(take_val, total) ==
    LET num == take_val.num
    IN  IF take_val.tag = "PlusZero" THEN Some(1)
        ELSE IF num.mag = Zero THEN None
        ELSE IF ~num.neg
        THEN IF dec_le_int(num, total) THEN Some(dec_int(num)) ELSE None
        ELSE IF Len(num.mag) > 9 \/ total + 1 + dec_int(num) <= 0 THEN Some(1)
        ELSE Some(total + 1 + dec_int(num))

\* tailr: reading and printing a file.

\* The chunks read_until(b'\n') returns: each ends with the newline, except
\* possibly the last.
RECURSIVE read_lines(_, _)
read_lines(bytes, cur) ==
    IF bytes = <<>> THEN (IF cur = <<>> THEN <<>> ELSE <<cur>>)
    ELSE IF Head(bytes) = NL THEN <<Append(cur, NL)>> \o read_lines(Tail(bytes), <<>>)
    ELSE read_lines(Tail(bytes), Append(cur, Head(bytes)))

\* count_lines_bytes: (lines, bytes)
count_lines_bytes(bytes) == <<Len(read_lines(bytes, <<>>)), Len(bytes)>>

\* print_lines that starts one line late.
print_lines_after_start(bytes, num_lines, total_lines) ==
    LET start == get_start_index(num_lines, total_lines)
        lines == read_lines(bytes, <<>>)
    IN  IF start = None THEN <<>>
        ELSE concat(SubSeq(lines, unwrap(start) + 1, Len(lines)))

\* What print_lines writes.
print_lines(bytes, num_lines, total_lines) ==
    LET start == get_start_index(num_lines, total_lines)
        lines == read_lines(bytes, <<>>)
    IN  IF start = None THEN <<>>
        ELSE concat(SubSeq(lines, unwrap(start), Len(lines)))

\* What print_byte writes.
print_byte(bytes, num_bytes, total_bytes) ==
    LET start == get_start_index(num_bytes, total_bytes)
    IN  IF start = None THEN <<>>
        ELSE SubSeq(bytes, unwrap(start), Len(bytes))

----------------------------------------------------------------------------
(* cutr: parse_index, parse_pos.  A usize is kept as the digits of its     *)
(* decimal form, a Range<usize> as its start and end.                      *)

\* n - 1 for the digits of n > 0, and n + 1.
RECURSIVE mag_pred(_)
mag_pred(ds) ==
    LET init == SubSeq(ds, 1, Len(ds) - 1)
        last == digit_val(ds[Len(ds)])
    IN  IF last > 0 THEN strip_zeros(init \o <<Digits[last]>>)
        ELSE strip_zeros(mag_pred(init) \o <<"9">>)

RECURSIVE mag_succ(_)
mag_succ(ds) ==
    LET init == SubSeq(ds, 1, Len(ds) - 1)
        last == digit_val(ds[Len(ds)])
    IN  IF last < 9 THEN init \o <<Digits[last + 2]>>
        ELSE IF init = <<>> THEN <<"1", "0">>
        ELSE mag_succ(init) \o <<"0">>

value_error(input) == <<"i", "l", "l", "e", "g", "a", "l", " ", "l", "i", "s", "t", " ", "v", "a", "l", "u", "e", ":", " ", "\"">> \o input \o <<"\"">>

\* parse_index that keeps the number one-based.
parse_index_one_based(input) ==
    IF input # <<>> /\ Head(input) = "+" THEN Err(value_error(input))
    ELSE LET n == from_str(input, USIZE_MAX, Zero)
         IN  IF n.ok /\ n.val.mag # Zero THEN Ok(n.val.mag)
             ELSE Err(value_error(input))

\* parse_index: input.parse::<NonZeroUsize>() less one, unless it starts with '+'
parse_index(input) ==
    IF input # <<>> /\ Head(input) = "+" THEN Err(value_error(input))
    ELSE LET n == from_str(input, USIZE_MAX, Zero)
         IN  IF n.ok /\ n.val.mag # Zero THEN Ok(mag_pred(n.val.mag))
             ELSE Err(value_error(input))

\* range.split(',')
RECURSIVE split_comma(_, _)
split_comma(s, cur) ==
    IF s = <<>> THEN <<cur>>
    ELSE IF Head(s) = "," THEN <<cur>> \o split_comma(Tail(s), <<>>)
    ELSE split_comma(Tail(s), Append(cur, Head(s)))

\* range_re.captures(val) for ^(\d+)-(\d+)$ : the two groups.
range_re_captures(val) ==
    LET dashes == {k \in 1..Len(val) : val[k] = "-"}
        k == CHOOSE d \in dashes : TRUE
        c1 == SubSeq(val, 1, k - 1)
        c2 == SubSeq(val, k + 1, Len(val))
    IN  IF Cardinality(dashes) = 1 /\ c1 # <<>> /\ c2 # <<>>
           /\ (\A j \in 1..Len(val) : j = k \/ IsDigit(val[j]))
        THEN Some(<<c1, c2>>)
        ELSE None

range_error(n1, n2) ==
    <<"F", "i", "r", "s", "t", " ", "n", "u", "m", "b", "e", "r", " ", "i", "n", " ", "r", "a", "n", "g", "e", " ", "(">> \o mag_succ(n1)
        \o <<")", " ", "m", "u", "s", "t", " ", "b", "e", " ", "l", "o", "w", "e", "r", " ", "t", "h", "a", "n", " ", "s", "e", "c", "o", "n", "d", " ", "n", "u", "m", "b", "e", "r", " ", "(">> \o mag_succ(n2) \o <<")">>

\* The closure parse_pos maps over the elements.
parse_pos_element(val) ==
    LET single == parse_index(val)
        caps == range_re_captures(val)
    IN  IF single.ok
        THEN Ok([start |-> single.val, end |-> mag_succ(single.val)])
        ELSE IF caps = None THEN single
        ELSE LET n1 == parse_index(unwrap(caps)[1])
                 n2 == parse_index(unwrap(caps)[2])
             IN  IF ~n1.ok THEN n1
                 ELSE IF ~n2.ok THEN n2
                 ELSE IF mag_le(n2.val, n1.val) THEN Err(range_error(n1.val, n2.val))
                 ELSE Ok([start |-> n1.val, end |-> mag_succ(n2.val)])

\* collect that goes on after an error and keeps the last one.
collect_results_last_error(rs, acc) ==
    LET bad == {k \in 1..Len(rs) : ~rs[k].ok}
    IN  IF bad = {} THEN Ok(acc \o [k \in 1..Len(rs) |-> rs[k].val])
        ELSE rs[CHOOSE k \in bad : \A j \in bad : j <= k]

\* collect::<Result<_, _>>(): the values, or the first error.
RECURSIVE collect_results(_, _)
collect_results(rs, acc) ==
    IF rs = <<>> THEN Ok(acc)
    ELSE IF ~Head(rs).ok THEN Head(rs)
    ELSE collect_results(Tail(rs), Append(acc, Head(rs).val))

parse_pos(range) ==
    LET vals == split_comma(range, <<>>)
    IN  collect_results([k \in 1..Len(vals) |-> parse_pos_element(vals[k])], <<>>)

----------------------------------------------------------------------------
(* cutr: extract_fields, extract_chars, extract_bytes.  A &str is the      *)
(* sequence of its chars; the char U+E1 stands for every char that UTF-8   *)
(* encodes in more than one byte, here the two bytes 0xC3 0xA1.            *)

\* s.as_bytes()
RECURSIVE as_bytes(_)
as_bytes(s) ==
    IF s = <<>> THEN <<>>
    ELSE (IF Head(s) = "U+E1" THEN <<"0xC3", "0xA1">> ELSE <<Head(s)>>) \o as_bytes(Tail(s))

\* String::from_utf8_lossy(bytes): a byte that is not part of a whole char
\* becomes U+FFFD.
RECURSIVE from_utf8_lossy(_)
from_utf8_lossy(bytes) ==
    IF bytes = <<>> THEN <<>>
    ELSE IF Head(bytes) = "0xC3" /\ Len(bytes) > 1 /\ bytes[2] = "0xA1"
         THEN <<"U+E1">> \o from_utf8_lossy(SubSeq(bytes, 3, Len(bytes)))
    ELSE IF Head(bytes) \in {"0xC3", "0xA1"}
         THEN <<"U+FFFD">> \o from_utf8_lossy(Tail(bytes))
    ELSE <<Head(bytes)>> \o from_utf8_lossy(Tail(bytes))

\* The items whose index i (0-origin) satisfies start <= i < end.
filter_range(items, start, end) ==
    SelectSeq([k \in 1..Len(items) |-> [i |-> k - 1, item |-> items[k]]],
              LAMBDA p : start <= p.i /\ p.i < end)

range_start(range) == mag_int(range.start)
range_end(range) == mag_int(range.end)

\* extract_fields: the closure subfield
subfield(record, range) ==
    LET found == filter_range(record, range_start(range), range_end(range))
    IN  IF found = <<>> THEN None
        ELSE Some([k \in 1..Len(found) |-> found[k].item])

extract_fields(record, field_pos) ==
    LET kept == SelectSeq([k \in 1..Len(field_pos) |-> subfield(record, field_pos[k])],
                          LAMBDA o : o # None)
    IN  concat([k \in 1..Len(kept) |-> unwrap(kept[k])])

\* extract_chars: the closure substring
substring(s, start, end) ==
    LET found == filter_range(s, start, end)
    IN  [k \in 1..Len(found) |-> found[k].item]

extract_chars(line, char_pos) ==
    concat([k \in 1..Len(char_pos) |->
               substring(line, range_start(char_pos[k]), range_end(char_pos[k]))])

\* bytes.get(range): the slice, or nothing when the range does not lie
\* within the bytes.
slice_get(bytes, range) ==
    IF range_start(range) > range_end(range) \/ range_end(range) > Len(bytes) THEN None
    ELSE Some(SubSeq(bytes, range_start(range) + 1, range_end(range)))

\* extract_bytes: the closure subbytes
subbytes(s, range) ==
    LET got == slice_get(as_bytes(s), range)
    IN  from_utf8_lossy(IF got = None THEN <<>> ELSE unwrap(got))

extract_bytes(line, byte_pos) ==
    concat([k \in 1..Len(byte_pos) |-> subbytes(line, byte_pos[k])])

----------------------------------------------------------------------------
(* Calls of the parsing and indexing functions, one call per behaviour:    *)
(* fn names the function, arg holds its argument and ret what it returned. *)

CalIdle ==
    /\ year = 0
    /\ month = None
    /\ print_year = FALSE
    /\ today = NoDate
    /\ fm = fm_idle
    /\ grid = <<>>
    /\ body = <<>>
    /\ row = 0
    /\ lineno = 0

MaxArgLen == 3

\* All strings over an alphabet with lengths from lo to hi.
StringsOver(alphabet, lo, hi) == UNION {[1..k -> alphabet] : k \in lo..hi}

LetterAlphabet == {"j", "u", "n", "l", "a", "m", "J", "N"}
DigitAlphabet == {"0", "1", "2", "3", "9"}

LetterArgs == StringsOver(LetterAlphabet, 0, MaxArgLen)

\* An optional sign followed by digits.
NumeralArgs == {sign \o ds : sign \in {<<>>, <<"+">>, <<"-">>},
                             ds \in StringsOver(DigitAlphabet, 1, MaxArgLen)}

EdgeArgs == {
    <<"J", "a", "n", "u", "a", "r", "y">>, <<"s", "e", "p", "t", "e", "m", "b", "e", "r">>, <<"S", "e", "p">>, <<"f", "e", "b">>, <<"f">>, <<"s">>, <<"o">>, <<"d">>,
    <<"a", "u">>, <<"a", "p">>, <<"f", "o", "o">>, <<"m", "a", "y", "a">>,
    <<"9", "9", "9", "9">>, <<"1", "0", "0", "0", "0">>, <<"0", "0", "1", "2">>, <<"0", "0", "1", "3">>, <<"+", "0", "0", "1", "2">>, <<"-", "0", "0", "0", "1">>,
    <<"2", "1", "4", "7", "4", "8", "3", "6", "4", "7">>, <<"2", "1", "4", "7", "4", "8", "3", "6", "4", "8">>, <<"-", "2", "1", "4", "7", "4", "8", "3", "6", "4", "8">>, <<"-", "2", "1", "4", "7", "4", "8", "3", "6", "4", "9">>,
    <<"4", "2", "9", "4", "9", "6", "7", "2", "9", "5">>, <<"4", "2", "9", "4", "9", "6", "7", "2", "9", "6">>, <<"+", "4", "2", "9", "4", "9", "6", "7", "2", "9", "6">>, <<"0", "0", "0", "0", "4", "2", "9", "4", "9", "6", "7", "2", "9", "5">>,
    <<"1", "a">>, <<"1", ".", "5">>, <<"-">>, <<"1", "-", "2">>, <<"2", "0", "0", "9", " ">>}

\* Characters the regex syntax gives a meaning: any char, alternation and
\* the opening of a class, among letters of June.
PatternAlphabet == {"j", "u", "n", "e", ".", "|", "["}

PatternArgs ==
    StringsOver(PatternAlphabet, 1, MaxArgLen) \cup {
        <<"j", "u", ".", "e">>, <<"f", ".", "*">>, <<"f", "*">>, <<"f", "e", "*", "b">>, <<"s", ".", "*", "r">>, <<"a", ".", "r">>, <<"j", "u", "n", "|", "x">>, <<"x", "|", "f", "e", "b">>,
        <<"j", "u", "[", "l">>, <<"m", ".", "y">>}

CalrArgs == LetterArgs \cup NumeralArgs \cup EdgeArgs \cup PatternArgs

MaxNum == 6
MaxTotal == 4

TakeValues ==
    {PlusZero}
    \cup {TakeNum(dec_of_int(n)) : n \in (-MaxNum)..MaxNum}
    \cup {TakeNum([neg |-> FALSE, mag |-> I64_MAX]), TakeNum([neg |-> TRUE, mag |-> I64_MIN_MAG])}

TailrArgs ==
    NumeralArgs \cup {
        I64_MAX, <<"+">> \o I64_MAX, <<"-">> \o I64_MAX,
        I64_MIN_MAG, <<"+">> \o I64_MIN_MAG, <<"-">> \o I64_MIN_MAG,
        <<"9", "2", "2", "3", "3", "7", "2", "0", "3", "6", "8", "5", "4", "7", "7", "5", "8", "0", "9">>, <<"-", "9", "2", "2", "3", "3", "7", "2", "0", "3", "6", "8", "5", "4", "7", "7", "5", "8", "0", "9">>,
        <<"0", "0", "0", "0", "0", "9", "2", "2", "3", "3", "7", "2", "0", "3", "6", "8", "5", "4", "7", "7", "5", "8", "0", "8">>, <<"+", "0", "0", "0", "0">>, <<"-", "0", "0", "0", "0">>, <<"0", "0", "0", "0">>,
        <<"3", ".", "1", "4">>, <<"n", "y", "a", "a">>, <<>>, <<"+">>, <<"-">>, <<"+", "+", "1">>, <<"+", "-", "1">>, <<"1", "+">>,
        <<" ", "1">>, <<"1", " ">>, <<"1", NL>>}

MaxPosLen == 5

CutrArgs ==
    StringsOver({"0", "1", "2", "3", ",", "-"}, 0, MaxPosLen) \cup {
        <<"1", ",", "7", ",", "3", "-", "5">>, <<"1", "5", ",", "1", "9", "-", "2", "0">>, <<"0", "0", "0", "1", "-", "0", "3">>, <<"0", "0", "1", ",", "0", "0", "0", "3">>, <<"0", "0", "0", "0", "0", "0", "0", "0", "0", "1">>,
        <<"+", "1">>, <<"+", "1", "-", "2">>, <<"1", "-", "+", "2">>, <<"a">>, <<"1", ",", "a">>, <<"1", "-", "a">>, <<"a", "-", "1">>, <<"1", "-", "1", "-", "a">>,
        USIZE_MAX, <<"1", "8", "4", "4", "6", "7", "4", "4", "0", "7", "3", "7", "0", "9", "5", "5", "1", "6", "1", "6">>,
        <<"1", "-", "1", "8", "4", "4", "6", "7", "4", "4", "0", "7", "3", "7", "0", "9", "5", "5", "1", "6", "1", "5">>, <<"1", "8", "4", "4", "6", "7", "4", "4", "0", "7", "3", "7", "0", "9", "5", "5", "1", "6", "1", "4", "-", "1", "8", "4", "4", "6", "7", "4", "4", "0", "7", "3", "7", "0", "9", "5", "5", "1", "6", "1", "5">>,
        <<"1", "8", "4", "4", "6", "7", "4", "4", "0", "7", "3", "7", "0", "9", "5", "5", "1", "6", "1", "5", "-", "1", "8", "4", "4", "6", "7", "4", "4", "0", "7", "3", "7", "0", "9", "5", "5", "1", "6", "1", "5">>, <<"1", "-", "1", "8", "4", "4", "6", "7", "4", "4", "0", "7", "3", "7", "0", "9", "5", "5", "1", "6", "1", "6">>}

MaxLineLen == 3
MaxPos == 4

\* The ranges parse_pos can return: start < end.
Ranges == {[start |-> to_string(p[1]), end |-> to_string(p[2])] :
              p \in {q \in (0..MaxPos) \X (0..MaxPos) : q[1] < q[2]}}

\* Position lists of one range and of two.
PositionLists == {<<r>> : r \in Ranges} \cup {<<r, q>> : r \in Ranges, q \in Ranges}

Lines == StringsOver({"a", "b", "U+E1"}, 0, MaxLineLen)

Records == StringsOver({<<"x">>, <<"y">>, <<>>}, 0, MaxLineLen)

MaxBytes == 4

TailFiles == StringsOver({"x", NL}, 0, MaxBytes)

MaxMonthArg == 14

\* The functions called on their own.
FnNames == {"parse_year", "parse_month", "get_start_index", "parse_num", "parse_pos",
            "extract_chars", "extract_bytes", "extract_fields", "print_lines",
            "last_day_in_month"}

\* The arguments each is called with.
FnArgs(f) ==
    CASE f \in {"parse_year", "parse_month"} -> CalrArgs
      [] f = "get_start_index" -> TakeValues \X (0..MaxTotal)
      [] f = "parse_num" -> TailrArgs
      [] f = "parse_pos" -> CutrArgs
      [] f \in {"extract_chars", "extract_bytes"} -> Lines \X PositionLists
      [] f = "extract_fields" -> Records \X PositionLists
      [] f = "print_lines" -> TailFiles \X TakeValues
      [] f = "last_day_in_month" -> (EdgeYears \cup {2023, 2024}) \X (0..MaxMonthArg)

InitFn ==
    /\ fn \in FnNames
    /\ arg \in FnArgs(fn)
    /\ ret = <<>>
    /\ pc = "call"
    /\ stdout = <<>>
    /\ CalIdle /\ MainIdle /\ TailIdle
    /\ UniqIdle

Return(r) ==
    /\ pc = "call"
    /\ ret' = r
    /\ pc' = "returned"
    /\ UNCHANGED <<cal_vars, stdout, main_vars, fn, arg, tail_vars>>
    /\ UNCHANGED uniq_vars

CallParseYear == fn = "parse_year" /\ Return(parse_year(arg))

CallParseMonth == fn = "parse_month" /\ Return(parse_month(arg))

CallGetStartIndex == fn = "get_start_index" /\ Return(get_start_index(arg[1], arg[2]))

CallParseNum == fn = "parse_num" /\ Return(parse_num(arg))

CallParsePos == fn = "parse_pos" /\ Return(parse_pos(arg))

CallExtractFields == fn = "extract_fields" /\ Return(extract_fields(arg[1], arg[2]))

CallExtractChars == fn = "extract_chars" /\ Return(extract_chars(arg[1], arg[2]))

CallExtractBytes == fn = "extract_bytes" /\ Return(extract_bytes(arg[1], arg[2]))

\* print_lines on a file, with the number of lines count_lines_bytes found.
CallPrintLines ==
    /\ fn = "print_lines"
    /\ pc = "call"
    /\ stdout' = stdout \o print_lines(arg[1], arg[2], count_lines_bytes(arg[1])[1])
    /\ ret' = Ok(<<>>)
    /\ pc' = "returned"
    /\ UNCHANGED <<cal_vars, main_vars, fn, arg, tail_vars>>
    /\ UNCHANGED uniq_vars

CallLastDayInMonth ==
    fn = "last_day_in_month" /\ Return(last_day_in_month(arg[1], arg[2]))

NextFn ==
    \/ CallParseYear
    \/ CallParseMonth
    \/ CallGetStartIndex
    \/ CallParseNum
    \/ CallParsePos
    \/ CallExtractFields
    \/ CallExtractChars
    \/ CallExtractBytes
    \/ CallPrintLines
    \/ CallLastDayInMonth

SpecFn == InitFn /\ [][NextFn]_vars

----------------------------------------------------------------------------
(* calr: main.  get_config reads the arguments and the clock, run prints   *)
(* the calendar; an error of either is written to stderr and the process   *)
(* exits with status 1.  ret holds what get_config returned.               *)

\* eprintln!("{}", s)
eprintln(err, s) == err \o s \o <<NL>>

\* Args::to_config that shows the whole year when the month does not parse.
to_config_unchecked_month(a, now) ==
    LET yr == IF a.year = None THEN Ok(now.year) ELSE parse_year(unwrap(a.year))
        mo == IF a.month = None THEN Ok(0) ELSE parse_month(unwrap(a.month))
    IN  IF ~yr.ok THEN yr
        ELSE Ok([year |-> yr.val,
                 month |-> IF a.month = None \/ ~mo.ok THEN None ELSE Some(mo.val)])

\* Args::to_config
to_config(a, now) ==
    LET yr == IF a.year = None THEN Ok(now.year) ELSE parse_year(unwrap(a.year))
        mo == IF a.month = None THEN Ok(0) ELSE parse_month(unwrap(a.month))
    IN  IF ~yr.ok THEN yr
        ELSE IF ~mo.ok THEN mo
        ELSE Ok([year |-> yr.val,
                 month |-> IF a.month = None THEN None ELSE Some(mo.val)])

\* What Local::now() returns in to_config.
ClockDates == {unwrap(from_ymd_opt(2024, 2, 29)), unwrap(from_ymd_opt(2026, 11, 5))}

YearOpts == {None} \cup {Some(s) : s \in {
    <<"2", "0", "2", "4">>, <<"1">>, <<"9", "9", "9", "9">>, <<"0">>, <<"1", "0", "0", "0", "0">>, <<"-", "1">>, <<"a", "b", "c">>, <<"2", "1", "4", "7", "4", "8", "3", "6", "4", "8">>, <<>>}}

MonthOpts == {None} \cup {Some(s) : s \in {
    <<"2">>, <<"j", "u", "n">>, <<"1", "2">>, <<"D", "e", "c">>, <<"j", "u">>, <<"0">>, <<"1", "3">>, <<"-", "1">>, <<"f", "o", "o">>, <<>>}}

InitMain ==
    /\ args \in {Some([year |-> y, month |-> m]) : y \in YearOpts, m \in MonthOpts}
    /\ stderr = <<>>
    /\ status = None
    /\ pc = "main"
    /\ stdout = <<>>
    /\ CalIdle /\ FnIdle /\ TailIdle
    /\ UniqIdle

GetConfig ==
    /\ pc = "main"
    /\ \E now \in ClockDates :
         LET r == to_config(unwrap(args), now)
         IN  /\ ret' = r
             /\ IF r.ok
                THEN year' = r.val.year /\ month' = r.val.month /\ pc' = "config"
                ELSE UNCHANGED <<year, month>> /\ pc' = "failed"
    /\ UNCHANGED <<print_year, today, fm, grid, body, row, lineno>>
    /\ UNCHANGED <<stdout, main_vars, fn, arg, tail_vars>>
    /\ UNCHANGED uniq_vars

RunStart ==
    /\ pc = "config"
    /\ today' \in RunTodays(year, month)
    /\ pc' = "run"
    /\ UNCHANGED <<year, month, print_year, fm, grid, body, row, lineno>>
    /\ UNCHANGED <<stdout, main_vars, fn_vars, tail_vars>>
    /\ UNCHANGED uniq_vars

MainFail ==
    /\ pc = "failed"
    /\ stderr' = eprintln(stderr, ret.err)
    /\ status' = Some(1)
    /\ pc' = "exit"
    /\ UNCHANGED <<cal_vars, stdout, args, fn_vars, tail_vars>>
    /\ UNCHANGED uniq_vars

MainReturn ==
    /\ pc = "done"
    /\ status' = Some(0)
    /\ pc' = "exit"
    /\ UNCHANGED <<cal_vars, stdout, args, stderr, fn_vars, tail_vars>>
    /\ UNCHANGED uniq_vars

NextMain ==
    \/ GetConfig
    \/ RunStart
    \/ PrintHeader
    \/ CollectBody
    \/ PrintLine
    \/ PrintBlank
    \/ FormatOne
    \/ PrintMonthLine
    \/ RunReturn
    \/ MainFail
    \/ MainReturn

SpecMain == InitMain /\ [][NextMain]_vars

----------------------------------------------------------------------------
(* tailr: run.  tconfig is the Config, tfs the file system (for each name  *)
(* the bytes of the file, or nothing when it cannot be opened), tidx the   *)
(* index of the next file.  The file system does not change during a run,  *)
(* so a file that opened is read without error.                            *)

\* Line 121: the header, after a newline unless the file is the first listed.
tail_header(idx, filename) ==
    (IF idx > 0 THEN <<NL>> ELSE <<>>) \o <<"=", "=", ">", " ">> \o filename \o <<" ", "<", "=", "=">>

\* The text of the io::Error of a failed File::open.
OpenError == <<"N", "o", " ", "s", "u", "c", "h", " ", "f", "i", "l", "e", " ", "o", "r", " ", "d", "i", "r", "e", "c", "t", "o", "r", "y", " ", "(", "o", "s", " ", "e", "r", "r", "o", "r", " ", "2", ")">>

MaxFiles == 3

FileNames == <<<<"a">>, <<"b">>, <<"c">>, <<"d">>>>

FileBytes == {<<>>, <<"x", NL>>, <<"x", NL, "y">>, <<"x", NL, "y", NL>>}

TailModes ==
    {[kind |-> k, num |-> v] :
        k \in {"Lines", "Bytes"},
        v \in {PlusZero, TakeNum(dec_of_int(0)), TakeNum(dec_of_int(2)),
               TakeNum(dec_of_int(-1)), TakeNum(dec_of_int(-10))}}

InitTail ==
    /\ \E n \in 1..MaxFiles : \E q \in BOOLEAN : \E tm \in TailModes :
         tconfig = Some([files |-> SubSeq(FileNames, 1, n), quiet |-> q, tail_mode |-> tm])
    /\ tfs \in [{FileNames[k] : k \in 1..MaxFiles} -> {None} \cup {Some(b) : b \in FileBytes}]
    /\ tidx = 0
    /\ pc = "tail"
    /\ stdout = <<>>
    /\ stderr = <<>>
    /\ args = <<>> /\ status = None
    /\ CalIdle /\ FnIdle
    /\ UniqIdle

\* One iteration whose File::open fails.
TailOpenErr ==
    /\ pc = "tail"
    /\ tidx < Len(unwrap(tconfig).files)
    /\ LET filename == unwrap(tconfig).files[tidx + 1]
       IN  /\ tfs[filename] = None
           /\ stderr' = eprintln(stderr, filename \o <<":", " ">> \o OpenError)
    /\ tidx' = tidx + 1
    /\ UNCHANGED <<cal_vars, pc, stdout, args, status, fn_vars, tconfig, tfs>>
    /\ UNCHANGED uniq_vars

\* One iteration whose File::open succeeds.
TailOpenOk ==
    /\ pc = "tail"
    /\ tidx < Len(unwrap(tconfig).files)
    /\ LET config == unwrap(tconfig)
           filename == config.files[tidx + 1]
       IN  /\ tfs[filename] # None
           /\ LET bytes == unwrap(tfs[filename])
                  is_multi == Len(config.files) > 1
                  head == IF is_multi /\ ~config.quiet
                          THEN println(stdout, tail_header(tidx, filename))
                          ELSE stdout
                  totals == count_lines_bytes(bytes)
              IN  stdout' = head \o
                      (IF config.tail_mode.kind = "Lines"
                       THEN print_lines(bytes, config.tail_mode.num, totals[1])
                       ELSE print_byte(bytes, config.tail_mode.num, totals[2]))
    /\ tidx' = tidx + 1
    /\ UNCHANGED <<cal_vars, pc, main_vars, fn_vars, tconfig, tfs>>
    /\ UNCHANGED uniq_vars

TailReturn ==
    /\ pc = "tail"
    /\ tidx = Len(unwrap(tconfig).files)
    /\ pc' = "tail_done"
    /\ UNCHANGED <<cal_vars, stdout, main_vars, fn_vars, tail_vars>>
    /\ UNCHANGED uniq_vars

NextTail == TailOpenErr \/ TailOpenOk \/ TailReturn

SpecTail == InitTail /\ [][NextTail]_vars


----------------------------------------------------------------------------
(* uniqr: run reads the input line by line and writes one line for each     *)
(* run of equal lines. The input is a readable text file or standard input, *)
(* the output is standard output (out_file is None).                        *)

MaxInput == 6

\* The bytes a text of the input alphabet holds.
UniqInputs == StringsOver({"a", "b", NL}, 0, MaxInput)

\* BufRead::read_line at position pos (0-origin): the bytes through the
\* first newline, or the rest of the input; empty at the end of the input.
RECURSIVE read_line(_, _)
read_line(bytes, pos) ==
    IF pos >= Len(bytes) THEN <<>>
    ELSE IF bytes[pos + 1] = NL THEN <<NL>>
    ELSE <<bytes[pos + 1]>> \o read_line(bytes, pos + 1)

\* str::trim_matches('\n'): every leading and every trailing newline removed.
RECURSIVE trim_matches(_)
trim_matches(s) ==
    IF s = <<>> THEN <<>>
    ELSE IF Head(s) = NL THEN trim_matches(Tail(s))
    ELSE IF s[Len(s)] = NL THEN trim_matches(SubSeq(s, 1, Len(s) - 1))
    ELSE s

\* format!("{:>4}", count)
pad4(s) == IF Len(s) < 4 THEN repeat(<<" ">>, 4 - Len(s)) \o s ELSE s

\* print_line: what it writes to file_out.
print_line(flg, n, line) ==
    IF flg THEN pad4(to_string(n)) \o <<" ">> \o line ELSE line

\* The line the next iteration of the loop reads.
next_line == read_line(file_in.bytes, file_in.pos)

InitUniq ==
    /\ count_flg \in BOOLEAN
    /\ \E b \in UniqInputs : file_in = [bytes |-> b, pos |-> 0]
    /\ count = 0
    /\ prev_line = <<>>
    /\ pc = "uniq"
    /\ stdout = <<>>
    /\ CalIdle /\ MainIdle /\ FnIdle /\ TailIdle

\* The arm (true, _) with the assignment the source leaves out.
UniqSameOverwrite ==
    /\ pc = "uniq"
    /\ next_line # <<>>
    /\ count # 0
    /\ trim_matches(prev_line) = trim_matches(next_line)
    /\ count' = count + 1
    /\ prev_line' = next_line
    /\ file_in' = [file_in EXCEPT !.pos = @ + Len(next_line)]
    /\ UNCHANGED <<cal_vars, pc, stdout, main_vars, fn_vars, tail_vars, count_flg>>

\* The arm (_, 0): the first line of the input.
UniqFirst ==
    /\ pc = "uniq"
    /\ next_line # <<>>
    /\ count = 0
    /\ count' = count + 1
    /\ prev_line' = next_line
    /\ file_in' = [file_in EXCEPT !.pos = @ + Len(next_line)]
    /\ UNCHANGED <<cal_vars, pc, stdout, main_vars, fn_vars, tail_vars, count_flg>>

\* The arm (true, _): the line continues the run.
UniqSame ==
    /\ pc = "uniq"
    /\ next_line # <<>>
    /\ count # 0
    /\ trim_matches(prev_line) = trim_matches(next_line)
    /\ count' = count + 1
    /\ file_in' = [file_in EXCEPT !.pos = @ + Len(next_line)]
    /\ UNCHANGED <<cal_vars, pc, stdout, main_vars, fn_vars, tail_vars, count_flg, prev_line>>

\* The arm (false, _): the line starts a run, the run before it is written.
UniqDiffer ==
    /\ pc = "uniq"
    /\ next_line # <<>>
    /\ count # 0
    /\ trim_matches(prev_line) # trim_matches(next_line)
    /\ stdout' = stdout \o print_line(count_flg, count, prev_line)
    /\ count' = 1
    /\ prev_line' = next_line
    /\ file_in' = [file_in EXCEPT !.pos = @ + Len(next_line)]
    /\ UNCHANGED <<cal_vars, pc, main_vars, fn_vars, tail_vars, count_flg>>

\* bytes == 0: the last run, if there is one, is written and the loop ends.
UniqEof ==
    /\ pc = "uniq"
    /\ next_line = <<>>
    /\ stdout' = IF count > 0 THEN stdout \o print_line(count_flg, count, prev_line)
                 ELSE stdout
    /\ pc' = "uniq_done"
    /\ UNCHANGED <<cal_vars, main_vars, fn_vars, tail_vars, uniq_vars>>

NextUniq ==
    \/ UniqFirst
    \/ UniqSame
    \/ UniqDiffer
    \/ UniqEof

SpecUniq == InitUniq /\ [][NextUniq]_vars

----------------------------------------------------------------------------
(* Reading a grid back: the visible text of a line, which of its visible   *)
(* characters lie inside a reverse-video span, and the 3-character cells   *)
(* of a body row.                                                          *)

\* The line without its escape sequences (each is ESC and three more characters).
RECURSIVE Visible(_)
Visible(s) ==
    IF s = <<>> THEN <<>>
    ELSE IF Head(s) = ESC THEN Visible(SubSeq(s, 5, Len(s)))
    ELSE <<Head(s)>> \o Visible(Tail(s))

\* For each visible character, whether it is inside a span opened by ESC [ 7 m.
RECURSIVE Styled(_, _)
Styled(s, on) ==
    IF s = <<>> THEN <<>>
    ELSE IF Head(s) = ESC THEN Styled(SubSeq(s, 5, Len(s)), s[3] = "7")
    ELSE <<on>> \o Styled(Tail(s), on)

HasEscape(s) == \E k \in 1..Len(s) : s[k] = ESC

\* Cell c (0..6) of a body row: its three visible characters, and whether any is styled.
Cell(line, c) == SubSeq(Visible(line), (3 * c) + 1, (3 * c) + 3)
CellStyled(line, c) == \E k \in ((3 * c) + 1)..((3 * c) + 3) : Styled(line, FALSE)[k]

Blank3 == <<" ", " ", " ">>

\* A day number right-justified to width 2 and followed by one space.
DayCell(d) ==
    IF d < 10 THEN <<" ", Digits[d + 1], " ">>
    ELSE <<Digits[(d \div 10) + 1], Digits[(d % 10) + 1], " ">>

\* The last day of a month by the Gregorian rules.
GregorianLast(y, m) ==
    IF m \in {1, 3, 5, 7, 8, 10, 12} THEN 31
    ELSE IF m \in {4, 6, 9, 11} THEN 30
    ELSE IF (y % 4 = 0 /\ y % 100 # 0) \/ (y % 400 = 0) THEN 29
    ELSE 28

\* The weekday of day d of month m of year y, Sunday = 0, by the congruence
\* over the Gregorian calendar that counts January and February with the
\* year before.
WeekdayOf(y, m, d) ==
    LET t == <<0, 3, 2, 5, 0, 3, 5, 1, 4, 6, 2, 4>>
        yy == IF m < 3 THEN y - 1 ELSE y
    IN  (yy + (yy \div 4) - (yy \div 100) + (yy \div 400) + t[m] + d) % 7

\* The weekday of day 1 of the displayed month, Sunday = 0.
Off == WeekdayOf(year, unwrap(month), 1)

\* The body rows of the returned grid.
BodyRows == SubSeq(grid, 3, Len(grid))

\* The day (or 0 for none) that belongs in cell c of body row r, both counted from 0.
DayAt(r, c) ==
    LET d == (7 * r) + c - Off + 1
    IN  IF d >= 1 /\ d <= GregorianLast(year, unwrap(month)) THEN d ELSE 0

TodayInMonth == today.year = year /\ date_month(today) = unwrap(month)

----------------------------------------------------------------------------
(* Claims about format_month (specification SpecMonth).                    *)

\* C1: format_month returns exactly 8 lines (title, weekday header, 6 body
\* lines), and every line is exactly 22 visible characters wide.
C1_EightLinesOf22 ==
    pc = "done" =>
        /\ Len(grid) = 8
        /\ \A k \in 1..Len(grid) : Len(Visible(grid[k])) = 22

\* C2: each day d in 1..last-day appears exactly once in the body, in body row
\* (off + d - 1) div 7 and cell (off + d - 1) mod 7, right-justified to width 2
\* and followed by one space; every other cell of the body is three spaces.
C2_DayPlacement ==
    pc = "done" =>
        /\ \A d \in 1..GregorianLast(year, unwrap(month)) :
               ((Off + d - 1) \div 7) + 1 <= Len(BodyRows)
        /\ \A r \in 0..(Len(BodyRows) - 1) : \A c \in 0..6 :
               Cell(BodyRows[r + 1], c) =
                   IF DayAt(r, c) = 0 THEN Blank3 ELSE DayCell(DayAt(r, c))

\* C2 witness: a month that starts on a Saturday and has 31 days, so the body
\* has leading blanks, six rows with days, and trailing blanks.
C2_Witness ==
    /\ pc = "done"
    /\ Off = 6
    /\ GregorianLast(year, unwrap(month)) = 31
    /\ Cell(BodyRows[6], 1) = DayCell(31)
    /\ Cell(BodyRows[6], 2) = Blank3

\* C3: a day cell is rendered in reverse video if and only if today is that
\* day of the displayed year and month; exactly one cell is highlighted when
\* today lies in the displayed month and none otherwise.
C3_HighlightIffToday ==
    pc = "done" =>
        /\ ~HasEscape(grid[1]) /\ ~HasEscape(grid[2])
        /\ \A r \in 0..(Len(BodyRows) - 1) : \A c \in 0..6 :
               CellStyled(BodyRows[r + 1], c) <=>
                   (TodayInMonth /\ DayAt(r, c) = date_day(today))
        /\ Cardinality({rc \in (0..(Len(BodyRows) - 1)) \X (0..6) :
                           CellStyled(BodyRows[rc[1] + 1], rc[2])})
               = (IF TodayInMonth THEN 1 ELSE 0)

\* C3 witness: today lies in the displayed month and its cell is highlighted.
C3_Witness ==
    /\ pc = "done"
    /\ TodayInMonth
    /\ \E r \in 0..(Len(BodyRows) - 1) : \E c \in 0..6 :
           CellStyled(BodyRows[r + 1], c) /\ DayAt(r, c) = date_day(today)

\* The title text format_month builds for the displayed month.
Title == fm_title(year, unwrap(month), print_year)

RECURSIVE TrimLeft(_)
TrimLeft(s) == IF s # <<>> /\ Head(s) = " " THEN TrimLeft(Tail(s)) ELSE s

RECURSIVE TrimRight(_)
TrimRight(s) ==
    IF s # <<>> /\ s[Len(s)] = " " THEN TrimRight(SubSeq(s, 1, Len(s) - 1)) ELSE s

Trim(s) == TrimRight(TrimLeft(s))

\* The number a sequence of decimal digits denotes; -1 if a character is no digit.
RECURSIVE DigitsValue(_)
DigitsValue(ds) ==
    IF ds = <<>> THEN 0
    ELSE LET last == ds[Len(ds)]
             rest == DigitsValue(SubSeq(ds, 1, Len(ds) - 1))
         IN  IF rest < 0 \/ ~(\E k \in 1..10 : Digits[k] = last) THEN -1
             ELSE (10 * rest) + ((CHOOSE k \in 1..10 : Digits[k] = last) - 1)

\* The text of the title line after the month name and one space.
YearText ==
    LET t == Trim(grid[1])
        n == Len(MONTHS[unwrap(month)])
    IN  SubSeq(t, n + 2, Len(t))

TitleStartsWithMonth ==
    LET t == Trim(grid[1])
        n == Len(MONTHS[unwrap(month)])
    IN  /\ Len(t) >= n
        /\ SubSeq(t, 1, n) = MONTHS[unwrap(month)]
        /\ print_year => (Len(t) > n + 1 /\ t[n + 1] = " ")
        /\ ~print_year => Len(t) = n

\* C5 as stated: with print_year the title is the full month name, one space
\* and the year written as exactly 4 digits; without it the month name alone.
C5_FourDigitYear ==
    pc = "done" =>
        /\ TitleStartsWithMonth
        /\ print_year => (Len(YearText) = 4 /\ DigitsValue(YearText) = year)

\* C5 amended: with print_year the title is the full month name, one space and
\* the year in decimal without padding or leading zeros (1 to 4 digits, 4 of
\* them exactly when the year is at least 1000); without it the month name alone.
C5_DecimalYear ==
    pc = "done" =>
        /\ TitleStartsWithMonth
        /\ print_year =>
               /\ DigitsValue(YearText) = year
               /\ YearText[1] # "0"
               /\ Len(YearText) \in 1..4
               /\ (Len(YearText) = 4) <=> (year >= 1000)

\* C5 witness: a title with a year of fewer than 4 digits.
C5_Witness ==
    /\ pc = "done"
    /\ print_year
    /\ year < 1000
    /\ Len(YearText) < 4
    /\ DigitsValue(YearText) = year

\* The last non-blank cell of the body, in reading order.
LastDayPrinted ==
    LET filled == {rc \in (1..Len(BodyRows)) \X (0..6) : Cell(BodyRows[rc[1]], rc[2]) # Blank3}
        lastrc == CHOOSE rc \in filled :
                      \A o \in filled : (7 * o[1]) + o[2] <= (7 * rc[1]) + rc[2]
    IN  Cell(BodyRows[lastrc[1]], lastrc[2])

\* C6: last_day_in_month returns the last day of the month under the Gregorian
\* rules, December included, and the last day printed in the body is that day.
C6_LastDay ==
    LET m == unwrap(month)
        r == last_day_in_month(year, m)
    IN  /\ r.ok
        /\ r.val.year = year
        /\ date_month(r.val) = m
        /\ date_day(r.val) = GregorianLast(year, m)
        /\ pc \in {"loop", "done"} => fm.last = r.val
        /\ pc = "done" => LastDayPrinted = DayCell(GregorianLast(year, m))

\* C6 witness: December, where the computation goes through January of year + 1.
C6_Witness ==
    /\ pc = "done"
    /\ unwrap(month) = 12
    /\ date_day(fm.last) = 31
    /\ fm.last.year = year
    /\ LastDayPrinted = DayCell(31)

\* C7: format_month is total on its valid domain: no unwrap fails, the index
\* into MONTHS is in range and neither padding count of the title line is
\* negative, so the call always runs on to its return.
C7_Total ==
    /\ pc # "panic"
    /\ ~fm.panicked
    /\ unwrap(month) - 1 \in 0..(Len(MONTHS) - 1)
    /\ left_pad(Len(Title)) >= 0
    /\ right_pad(Len(Title)) >= 0
    /\ last_day_in_month(year, unwrap(month)).ok
    /\ pc = "loop" /\ fm.i <= date_day(fm.last)
           => is_some(from_ymd_opt(year, unwrap(month), fm.i))
    /\ pc # "done" => ENABLED NextMonth

\* C7 witness: December 9999 with the year in the title has been formatted.
C7_Witness ==
    /\ pc = "done"
    /\ year = MaxYear
    /\ unwrap(month) = 12
    /\ print_year
    /\ Len(grid) = 8

----------------------------------------------------------------------------
(* Claims about run (specification SpecRun).                               *)

\* The positions of the newline characters of standard output.
NewlineAt == {k \in 1..Len(stdout) : stdout[k] = NL}

\* Standard output split on newline characters: the text before the first
\* newline, between consecutive newlines, and after the last one.
OutLines ==
    LET nl == NewlineAt
        n == Cardinality(nl)
        nth(j) == CHOOSE q \in nl : Cardinality({q2 \in nl : q2 <= q}) = j
        from(j) == IF j = 1 THEN 1 ELSE nth(j - 1) + 1
        to(j) == IF j = n + 1 THEN Len(stdout) ELSE nth(j) - 1
    IN  [j \in 1..(n + 1) |-> SubSeq(stdout, from(j), to(j))]

YearViewDone == pc = "done" /\ month = None

\* C8: with no month given, standard output split on newlines has exactly 38
\* elements, and the first is 66 characters wide: 28 spaces, the year in
\* decimal, then spaces.
C8_YearViewShape ==
    YearViewDone =>
        LET out == OutLines
            h == out[1]
        IN  /\ Len(out) = 38
            /\ Len(h) = 66
            /\ SubSeq(h, 1, 28) = repeat(<<" ">>, 28)
            /\ h[29] # " " /\ h[29] # "0"
            /\ DigitsValue(Trim(h)) = year

\* C9: in the year view each month-row r in 0..3 is 8 lines of 66 visible
\* characters, line i being line i of format_month (print_year = false) for
\* months 3r+1, 3r+2 and 3r+3 joined, and the month-rows appear in order.
C9_MonthRows ==
    YearViewDone =>
        LET out == OutLines
            g(m) == format_month(year, m, FALSE, today)
        IN  /\ \A m \in 1..12 : Len(g(m)) = 8
            /\ Len(out) >= 37
            /\ \A r \in 0..3 : \A i \in 0..7 :
                   LET l == out[2 + (9 * r) + i]
                   IN  /\ Len(Visible(l)) = 66
                       /\ l = g((3 * r) + 1)[i + 1] \o g((3 * r) + 2)[i + 1]
                                  \o g((3 * r) + 3)[i + 1]

\* The index in the output of the line that follows the last line of month-row
\* r; the header is line 1.
RECURSIVE AfterRow(_)
AfterRow(r) == IF r = 0 THEN 1 ELSE AfterRow(r - 1) + Len(body[r]) + 1

\* The number of lines written so far (each ends in a newline).
LinesWritten == Cardinality(NewlineAt)

BlankLines == {j \in 1..LinesWritten : OutLines[j] = <<>>}

\* C10 as stated: a blank line follows month-rows 1, 2 and 3 only, and the
\* last line of output belongs to the fourth month-row.
C10_BlankBetweenOnly ==
    YearViewDone =>
        /\ BlankLines = {AfterRow(1), AfterRow(2), AfterRow(3)}
        /\ OutLines[LinesWritten] = body[4][Len(body[4])]

\* C10 amended: in the year view one blank line is emitted after each of the
\* four month-rows, the fourth included, and nowhere else, so the last line of
\* output is a blank line.
C10_BlankAfterEachRow ==
    /\ (month = None /\ pc \in {"print", "done"}) =>
           \A r \in 1..Len(body) :
               AfterRow(r) <= LinesWritten => OutLines[AfterRow(r)] = <<>>
    /\ YearViewDone =>
           /\ BlankLines = {AfterRow(r) : r \in 1..4}
           /\ LinesWritten = AfterRow(4)
           /\ OutLines[LinesWritten] = <<>>
           /\ OutLines[LinesWritten - 1] = body[4][Len(body[4])]

\* C10 witness: the year view has ended and the line after the fourth
\* month-row is blank.
C10_Witness ==
    /\ YearViewDone
    /\ Len(body) = 4
    /\ LinesWritten = AfterRow(4)
    /\ OutLines[AfterRow(4)] = <<>>
    /\ OutLines[AfterRow(4) - 1] = body[4][Len(body[4])]

----------------------------------------------------------------------------
(* Reading an argument of parse_year and parse_month independently of the  *)
(* functions: month names by prefix, integers by their digits.             *)

IsLetter(c) == \E k \in 1..26 : UpperAlpha[k] = c \/ LowerAlpha[k] = c

IsLetters(s) == \A k \in 1..Len(s) : IsLetter(s[k])

IsPrefixCI(s, name) ==
    /\ Len(s) <= Len(name)
    /\ \A k \in 1..Len(s) : to_lower(s[k]) = to_lower(name[k])

MonthsWithPrefix(s) == {k \in 1..12 : IsPrefixCI(s, MONTHS[k])}

InvalidMonth(s) == <<"I", "n", "v", "a", "l", "i", "d", " ", "m", "o", "n", "t", "h", " ", "\"">> \o s \o <<"\"">>

\* C11: for a string of letters, parse_month returns the number of the one
\* month whose name it is a case-insensitive prefix of, and fails with
\* Invalid month "s" when it is a prefix of no month or of several.
C11_UniquePrefix ==
    (pc = "returned" /\ fn = "parse_month" /\ IsLetters(arg)) =>
        IF Cardinality(MonthsWithPrefix(arg)) = 1
        THEN ret = Ok(CHOOSE k \in MonthsWithPrefix(arg) : TRUE)
        ELSE ret = Err(InvalidMonth(arg))

C11_Witness ==
    /\ pc = "returned" /\ fn = "parse_month"
    /\ arg = <<"j", "u", "n">> /\ ret = Ok(6)

C11_AmbiguousReached ==
    /\ pc = "returned" /\ fn = "parse_month"
    /\ arg = <<"j", "u">> /\ ret = Err(InvalidMonth(arg))

\* An optional sign followed by at least one digit.
IsIntegerString(s) ==
    LET ds == IF s # <<>> /\ Head(s) \in {"+", "-"} THEN Tail(s) ELSE s
    IN  ds # <<>> /\ \A k \in 1..Len(ds) : IsDigit(ds[k])

IntegerMag(s) == strip_zeros(IF Head(s) \in {"+", "-"} THEN Tail(s) ELSE s)

IntegerNeg(s) == Head(s) = "-" /\ IntegerMag(s) # Zero

\* The integer written in canonical decimal.
IntegerText(s) == IF IntegerNeg(s) THEN <<"-">> \o IntegerMag(s) ELSE IntegerMag(s)

IntegerWithin(s, lo, hi) ==
    /\ ~IntegerNeg(s)
    /\ Len(IntegerMag(s)) <= 9
    /\ lo <= mag_int(IntegerMag(s)) /\ mag_int(IntegerMag(s)) <= hi

YearRangeError(s) ==
    <<"y", "e", "a", "r", " ", "\"">> \o IntegerText(s) \o <<"\"", " ", "n", "o", "t", " ", "i", "n", " ", "t", "h", "e", " ", "r", "a", "n", "g", "e", " ", "1", " ", "t", "h", "r", "o", "u", "g", "h", " ", "9", "9", "9", "9">>

MonthRangeError(s) ==
    <<"m", "o", "n", "t", "h", " ", "\"">> \o IntegerText(s) \o <<"\"", " ", "n", "o", "t", " ", "i", "n", " ", "t", "h", "e", " ", "r", "a", "n", "g", "e", " ", "1", " ", "t", "h", "r", "o", "u", "g", "h", " ", "1", "2">>

\* C12: for an integer string, parse_year succeeds exactly when the integer
\* is in 1..9999 and otherwise reports the year range error; parse_month
\* succeeds exactly when it is in 1..12 and otherwise reports the month
\* range error, never the error of the month-name matching.
C12_IntegerRange ==
    (pc = "returned" /\ fn \in {"parse_year", "parse_month"} /\ IsIntegerString(arg)) =>
        /\ fn = "parse_year" =>
              IF IntegerWithin(arg, 1, 9999)
              THEN ret = Ok(mag_int(IntegerMag(arg)))
              ELSE ret = Err(YearRangeError(arg))
        /\ fn = "parse_month" =>
              IF IntegerWithin(arg, 1, 12)
              THEN ret = Ok(mag_int(IntegerMag(arg)))
              ELSE ret = Err(MonthRangeError(arg))

----------------------------------------------------------------------------
(* The command line of calr.                                               *)

YearInvalid == args # <<>> /\ unwrap(args).year # None
                 /\ ~parse_year(unwrap(unwrap(args).year)).ok

MonthInvalid == args # <<>> /\ unwrap(args).month # None
                  /\ ~parse_month(unwrap(unwrap(args).month)).ok

\* The message of the first argument that is rejected, the year before the month.
FirstError ==
    IF YearInvalid THEN parse_year(unwrap(unwrap(args).year)).err
    ELSE parse_month(unwrap(unwrap(args).month)).err

HasNewline(s) == \E k \in 1..Len(s) : s[k] = NL

\* C13: with an invalid year or month nothing is ever written to stdout,
\* the calendar is never started, and the process ends with exactly one
\* line on stderr, the message of the rejected argument, and exit status 1.
C13_FailBeforeOutput ==
    (YearInvalid \/ MonthInvalid) =>
        /\ stdout = <<>>
        /\ pc \in {"main", "failed", "exit"}
        /\ pc = "exit" => /\ status = Some(1)
                          /\ stderr = FirstError \o <<NL>>
                          /\ ~HasNewline(FirstError)
        /\ pc # "exit" => stderr = <<>> /\ status = None

C13_Witness ==
    /\ pc = "exit" /\ ~YearInvalid /\ MonthInvalid
    /\ stdout = <<>> /\ stderr # <<>> /\ status = Some(1)

----------------------------------------------------------------------------
(* format_month as a function of its arguments.                            *)

\* The date the unit tests pass for "no day is today"; it precedes year 1.
FarDate == unwrap(from_ymd_opt(0, 1, 1))

\* C14: the grid format_month returns is determined by its four arguments,
\* and it is the same grid for every today outside the displayed month.
C14_TodayOutsideIrrelevant ==
    pc = "done" =>
        /\ grid = format_month(year, unwrap(month), print_year, today)
        /\ ~TodayInMonth =>
              \A td \in OtherDates(year, unwrap(month)) :
                  grid = format_month(year, unwrap(month), print_year, td)

C14_Witness ==
    /\ pc = "done"
    /\ ~TodayInMonth /\ today # FarDate
    /\ grid = format_month(year, unwrap(month), print_year, FarDate)

\* Where the cell of day d is: its row among the body rows and its column.
RowOf(d) == (Off + d - 1) \div 7
ColOf(d) == (Off + d - 1) % 7

\* The two characters of a day cell: two digits, or a space and one digit.
TwoChars(d) ==
    IF d < 10 THEN <<" ", Digits[d + 1]>>
    ELSE <<Digits[(d \div 10) + 1], Digits[(d % 10) + 1]>>

EscapeCount(s) == Cardinality({k \in 1..Len(s) : s[k] = ESC})

\* C15: in the row of the highlighted day the span ESC[7m .. ESC[0m holds
\* exactly the two characters of the day, the separator space follows the
\* span, and the visible text of every row is that of the grid without
\* highlighting.
C15_SpanTwoChars ==
    (pc = "done" /\ TodayInMonth) =>
        LET d == date_day(today)
            line == BodyRows[RowOf(d) + 1]
            k == 3 * ColOf(d)
            plain == format_month(year, unwrap(month), print_year, FarDate)
        IN  /\ EscapeCount(line) = 2
            /\ SubSeq(line, k + 1, k + 4) = <<ESC, "[", "7", "m">>
            /\ SubSeq(line, k + 5, k + 6) = TwoChars(d)
            /\ SubSeq(line, k + 7, k + 10) = <<ESC, "[", "0", "m">>
            /\ line[k + 11] = " "
            /\ Len(grid) = Len(plain)
            /\ \A r \in 1..Len(grid) : Visible(grid[r]) = plain[r]

C15_Witness ==
    /\ pc = "done" /\ TodayInMonth
    /\ date_day(today) < 10
    /\ EscapeCount(BodyRows[RowOf(date_day(today)) + 1]) = 2

\* Spaces before and after the text of a line.
LeadingSpaces(s) == Len(s) - Len(TrimLeft(s))
TrailingSpaces(s) == Len(s) - Len(TrimRight(s))

\* The 21-column field of the title line (columns 0-20).
TitleField == SubSeq(grid[1], 1, 21)

TitleSkew == TrailingSpaces(TitleField) - LeadingSpaces(TitleField)

----------------------------------------------------------------------------
(* tailr: get_start_index and parse_num.                                   *)

\* Larger than every total and every short num of the model; stands for a
\* num of 10 digits or more.
Huge == MaxTotal + MaxNum + 1

\* The integer inside a TakeNum.
NumOf(take_val) ==
    IF Len(take_val.num.mag) > 9
    THEN IF take_val.num.neg THEN -Huge ELSE Huge
    ELSE dec_int(take_val.num)

Max(a, b) == IF a >= b THEN a ELSE b

FitsI64(s) ==
    mag_le(IntegerMag(s), IF Head(s) = "+" THEN I64_MAX ELSE I64_MIN_MAG)

\* C18: parse_num reads digits without a sign or after '-' as the negative
\* of their magnitude and digits after '+' as the positive value, a zero
\* after '+' as PlusZero and any other zero as TakeNum(0); a string that is
\* not an optional sign and digits, or whose value does not fit in an i64,
\* is an error whose text is the string.
C18_ParseNum ==
    (pc = "returned" /\ fn = "parse_num") =>
        IF ~IsIntegerString(arg) THEN ret = Err(arg)
        ELSE IF ~FitsI64(arg) THEN ret = Err(arg)
        ELSE IF Head(arg) = "+"
        THEN ret = Ok(IF IntegerMag(arg) = Zero THEN PlusZero
                      ELSE TakeNum([neg |-> FALSE, mag |-> IntegerMag(arg)]))
        ELSE ret = Ok(TakeNum([neg |-> IntegerMag(arg) # Zero, mag |-> IntegerMag(arg)]))

\* C18 witness: an unsigned 2^63 - 1 is read as -(2^63 - 1).
C18_Witness ==
    /\ pc = "returned" /\ fn = "parse_num"
    /\ arg = I64_MAX /\ ret = Ok(TakeNum([neg |-> TRUE, mag |-> I64_MAX]))

C18_MinReached ==
    /\ pc = "returned" /\ fn = "parse_num"
    /\ arg = <<"-">> \o I64_MIN_MAG
    /\ ret = Ok(TakeNum([neg |-> TRUE, mag |-> I64_MIN_MAG]))

----------------------------------------------------------------------------
(* tailr: the headers between the files.                                   *)

TailConfig == unwrap(tconfig)

\* What run writes for the file at position k (1-origin), without a header.
TailBody(k) ==
    LET bytes == unwrap(tfs[TailConfig.files[k]])
        totals == count_lines_bytes(bytes)
    IN  IF TailConfig.tail_mode.kind = "Lines"
        THEN print_lines(bytes, TailConfig.tail_mode.num, totals[1])
        ELSE print_byte(bytes, TailConfig.tail_mode.num, totals[2])

\* The output the claim describes for the files from position k on, given
\* whether a file has been opened before: a header only for a file that
\* opens, after one empty line unless it is the first such file.
RECURSIVE HeadersBySuccess(_, _)
HeadersBySuccess(k, seen) ==
    IF k > Len(TailConfig.files) THEN <<>>
    ELSE IF tfs[TailConfig.files[k]] = None THEN HeadersBySuccess(k + 1, seen)
    ELSE (IF seen THEN <<NL>> ELSE <<>>)
             \o <<"=", "=", ">", " ">> \o TailConfig.files[k] \o <<" ", "<", "=", "=">> \o <<NL>>
             \o TailBody(k) \o HeadersBySuccess(k + 1, TRUE)

\* C19: with several files and not quiet, the output is, for each file that
\* opens, its header and its tail, with one empty line before the header of
\* every such file but the first, whichever files fail to open.
C19_BlankBeforeLaterSuccess ==
    (pc = "tail_done" /\ Len(TailConfig.files) > 1 /\ ~TailConfig.quiet) =>
        stdout = HeadersBySuccess(1, FALSE)

\* The first listed file fails to open and a later one opens.
TailFirstMissing ==
    /\ pc = "tail_done" /\ Len(TailConfig.files) > 1 /\ ~TailConfig.quiet
    /\ tfs[TailConfig.files[1]] = None
    /\ \E k \in 2..Len(TailConfig.files) : tfs[TailConfig.files[k]] # None


\* The part of C19 the code keeps: when the first listed file opens, the
\* empty lines fall exactly before the later headers.
TailFirstOpens ==
    (pc = "tail_done" /\ Len(TailConfig.files) > 1 /\ ~TailConfig.quiet
       /\ tfs[TailConfig.files[1]] # None) =>
        stdout = HeadersBySuccess(1, FALSE)

----------------------------------------------------------------------------
(* cutr: the position list.                                                *)

IsDigits(s) == s # <<>> /\ \A k \in 1..Len(s) : IsDigit(s[k])

\* A positive integer that a usize holds, leading zeros allowed.
IsPosition(s) ==
    IsDigits(s) /\ strip_zeros(s) # Zero /\ mag_le(strip_zeros(s), USIZE_MAX)

\* The place of the '-' in a range a-b of two positions with a < b, 0 if
\* the element is no such range.
DashOf(e) ==
    LET ks == {k \in 2..(Len(e) - 1) :
                 /\ e[k] = "-"
                 /\ IsPosition(SubSeq(e, 1, k - 1))
                 /\ IsPosition(SubSeq(e, k + 1, Len(e)))
                 /\ strip_zeros(SubSeq(e, 1, k - 1)) # strip_zeros(SubSeq(e, k + 1, Len(e)))
                 /\ mag_le(strip_zeros(SubSeq(e, 1, k - 1)),
                           strip_zeros(SubSeq(e, k + 1, Len(e))))}
    IN  IF ks = {} THEN 0 ELSE CHOOSE k \in ks : TRUE

IsListElement(e) == IsPosition(e) \/ DashOf(e) > 0

\* The half-open zero-based range the claim gives an element.
RangeOf(e) ==
    IF IsPosition(e)
    THEN [start |-> mag_pred(strip_zeros(e)), end |-> strip_zeros(e)]
    ELSE [start |-> mag_pred(strip_zeros(SubSeq(e, 1, DashOf(e) - 1))),
          end |-> strip_zeros(SubSeq(e, DashOf(e) + 1, Len(e)))]

Elements(s) == split_comma(s, <<>>)

----------------------------------------------------------------------------
(* cutr: the errors of the position list.                                  *)

\* The place of the '-' in an element of the form digits-digits, else 0.
FormDash(e) ==
    LET ks == {k \in 2..(Len(e) - 1) :
                 e[k] = "-" /\ IsDigits(SubSeq(e, 1, k - 1)) /\ IsDigits(SubSeq(e, k + 1, Len(e)))}
    IN  IF ks = {} THEN 0 ELSE CHOOSE k \in ks : TRUE

LowBound(e) == SubSeq(e, 1, FormDash(e) - 1)
HighBound(e) == SubSeq(e, FormDash(e) + 1, Len(e))

IsZero(s) == IsDigits(s) /\ strip_zeros(s) = Zero

\* Every number written in the element is one a usize holds.
FitsUsize(e) ==
    IF FormDash(e) > 0
    THEN mag_le(strip_zeros(LowBound(e)), USIZE_MAX) /\ mag_le(strip_zeros(HighBound(e)), USIZE_MAX)
    ELSE IsDigits(e) => mag_le(strip_zeros(e), USIZE_MAX)

IllegalValue(s) == <<"i", "l", "l", "e", "g", "a", "l", " ", "l", "i", "s", "t", " ", "v", "a", "l", "u", "e", ":", " ", "\"">> \o s \o <<"\"">>

RangeOrderError(a, b) ==
    <<"F", "i", "r", "s", "t", " ", "n", "u", "m", "b", "e", "r", " ", "i", "n", " ", "r", "a", "n", "g", "e", " ", "(">> \o strip_zeros(a)
        \o <<")", " ", "m", "u", "s", "t", " ", "b", "e", " ", "l", "o", "w", "e", "r", " ", "t", "h", "a", "n", " ", "s", "e", "c", "o", "n", "d", " ", "n", "u", "m", "b", "e", "r", " ", "(">> \o strip_zeros(b) \o <<")">>

\* The error of an invalid element; zero_text(b) is the text reported for a
\* bound b of a well-formed range that is zero or too large.
ElementError(e, zero_text(_)) ==
    IF FormDash(e) = 0 THEN IllegalValue(e)
    ELSE IF ~IsPosition(LowBound(e)) THEN IllegalValue(zero_text(LowBound(e)))
    ELSE IF ~IsPosition(HighBound(e)) THEN IllegalValue(zero_text(HighBound(e)))
    ELSE RangeOrderError(LowBound(e), HighBound(e))

InvalidAt(s) == {k \in 1..Len(Elements(s)) : ~IsListElement(Elements(s)[k])}

LeftmostInvalid(s) == Elements(s)[CHOOSE k \in InvalidAt(s) : \A j \in InvalidAt(s) : k <= j]

AsWritten(b) == b
AsZero(b) == Zero

----------------------------------------------------------------------------
(* cutr: the items a position list selects.                                *)

Min(a, b) == IF a <= b THEN a ELSE b

\* The items of a line or record that a range selects: those at the
\* indices start..end-1 that exist.
SelectedBy(items, range) ==
    SubSeq(items, mag_int(range.start) + 1, Min(mag_int(range.end), Len(items)))

\* The selections of the ranges, in the order of the list, joined.
RECURSIVE SelectedInListOrder(_, _)
SelectedInListOrder(items, pos) ==
    IF pos = <<>> THEN <<>>
    ELSE SelectedBy(items, Head(pos)) \o SelectedInListOrder(items, Tail(pos))

\* The same for bytes, each selection made into text on its own.
RECURSIVE SelectedBytesInListOrder(_, _)
SelectedBytesInListOrder(bytes, pos) ==
    IF pos = <<>> THEN <<>>
    ELSE from_utf8_lossy(SelectedBy(bytes, Head(pos)))
             \o SelectedBytesInListOrder(bytes, Tail(pos))

ExtractExpected ==
    IF fn = "extract_bytes" THEN SelectedBytesInListOrder(as_bytes(arg[1]), arg[2])
    ELSE SelectedInListOrder(arg[1], arg[2])

\* C22: extract_chars, extract_bytes and extract_fields return what each
\* range selects, range after range in the order of the list, an item once
\* for each range that selects it, and nothing for a range beyond the end.
C22_SelectedInListOrder ==
    (pc = "returned" /\ fn \in {"extract_chars", "extract_bytes", "extract_fields"}) =>
        ret = ExtractExpected

\* The same for extract_chars and extract_fields alone.
ExtractCharsFieldsInListOrder ==
    (pc = "returned" /\ fn \in {"extract_chars", "extract_fields"}) =>
        ret = ExtractExpected

\* extract_bytes when every range either lies within the bytes of the line
\* or wholly beyond them.
ExtractBytesWholeRanges ==
    (pc = "returned" /\ fn = "extract_bytes"
       /\ \A k \in 1..Len(arg[2]) :
              \/ mag_int(arg[2][k].end) <= Len(as_bytes(arg[1]))
              \/ mag_int(arg[2][k].start) >= Len(as_bytes(arg[1]))) =>
        ret = ExtractExpected

----------------------------------------------------------------------------
(* The day loop of format_month, step by step.                             *)

\* Day d of the displayed month closes a row: it is a Saturday or the last day.
ClosesRow(d) ==
    \/ WeekdayOf(year, unwrap(month), d) = 6
    \/ d = GregorianLast(year, unwrap(month))

\* C23: a step of the day loop appends a row exactly when the day it wrote
\* is a Saturday or the last day of the month; the row appended is 22
\* visible characters wide and leaves the pending line empty; any other
\* step leaves the rows as they are and the pending line non-empty.
C23_RowOnSaturdayOrLast ==
    [][(pc = "loop" /\ pc' = "loop" /\ fm'.i = fm.i + 1) =>
          IF ClosesRow(fm.i)
          THEN /\ Len(fm'.days) = Len(fm.days) + 1
               /\ SubSeq(fm'.days, 1, Len(fm.days)) = fm.days
               /\ Len(Visible(fm'.days[Len(fm'.days)])) = 22
               /\ fm'.line = <<>>
          ELSE /\ fm'.days = fm.days
               /\ fm'.line # <<>>]_vars

\* C23 witness: the loop has just appended its second row, with days left.
C23_Witness ==
    /\ pc = "loop"
    /\ Len(fm.days) = 2 /\ fm.line = <<>>
    /\ fm.i > 1 /\ fm.i <= date_day(fm.last)
    /\ ClosesRow(fm.i - 1)

----------------------------------------------------------------------------
(* tailr: the lines print_lines writes.                                    *)

\* The lines of the file print_lines was given, and their number.
FileLines == read_lines(arg[1], <<>>)
Total == Len(FileLines)

\* Lines a..b of the file (1-origin), in file order, each once.
LinesFromTo(a, b) == concat(SubSeq(FileLines, a, b))

\* C24: print_lines writes the last min(k, total) lines for TakeNum(-k),
\* lines k..total for TakeNum(k) with 0 < k <= total, every line for
\* PlusZero, and nothing for TakeNum(0) and for TakeNum(k) with k > total.
C24_LinesPrinted ==
    (pc = "returned" /\ fn = "print_lines") =>
        LET n == NumOf(arg[2])
        IN  IF arg[2].tag = "PlusZero" THEN stdout = LinesFromTo(1, Total)
            ELSE IF n = 0 THEN stdout = <<>>
            ELSE IF n > 0
            THEN stdout = (IF n <= Total THEN LinesFromTo(n, Total) ELSE <<>>)
            ELSE stdout = LinesFromTo(Total - Min(-n, Total) + 1, Total)

\* C24 witness: the last two of three lines.
C24_Witness ==
    /\ pc = "returned" /\ fn = "print_lines"
    /\ arg[1] = <<"x", NL, NL, "x">>
    /\ arg[2] = TakeNum(dec_of_int(-2))
    /\ stdout = <<NL, "x">>

----------------------------------------------------------------------------
(* calr: last_day_in_month called with any month.                          *)

\* C25: for a month outside 1..12 last_day_in_month returns an error.
C25_ErrorOutsideRange ==
    (pc = "returned" /\ fn = "last_day_in_month" /\ arg[2] \notin 1..12) => ~ret.ok

\* The same for the months above 12.
LastDayErrorAboveTwelve ==
    (pc = "returned" /\ fn = "last_day_in_month" /\ arg[2] > 12) => ~ret.ok

\* Month 0 gives the last day of the year before.
LastDayOfMonthZero ==
    (pc = "returned" /\ fn = "last_day_in_month" /\ arg[2] = 0) =>
        ret = Ok(unwrap(from_ymd_opt(arg[1] - 1, 12, 31)))

----------------------------------------------------------------------------
(* calr: month names given with characters of the regex syntax.            *)

\* C26: parse_month resolves a string that is no integer to month k only
\* if the string is, letter for letter and without regard to case, a prefix
\* of the name of month k and of no other month.
C26_LiteralPrefixOnly ==
    (pc = "returned" /\ fn = "parse_month" /\ ~IsIntegerString(arg) /\ ret.ok) =>
        MonthsWithPrefix(arg) = {ret.val}

\* The same for strings free of '.', '*', '[', ']' and '|'.
LiteralPrefixWithoutSyntax ==
    (pc = "returned" /\ fn = "parse_month" /\ ~IsIntegerString(arg) /\ ret.ok
       /\ \A k \in 1..Len(arg) : arg[k] \notin {".", "*", "[", "]", "|"}) =>
        MonthsWithPrefix(arg) = {ret.val}

\* ".un" is resolved to June.
PatternResolved ==
    /\ pc = "returned" /\ fn = "parse_month"
    /\ arg = <<".", "u", "n">> /\ ret = Ok(6)

----------------------------------------------------------------------------
(* The year view: where each day is printed.                               *)

\* The month-row (0..3) and the column block (0..2) of month m.
QuarterOf(m) == (m - 1) \div 3
BlockOf(m) == (m - 1) % 3

\* The body row (0-origin) and the weekday column of day d of month m.
DayRow(m, d) == (WeekdayOf(year, m, 1) + d - 1) \div 7
DayCol(m, d) == (WeekdayOf(year, m, 1) + d - 1) % 7

\* The output line that holds body row k of the months of quarter q: after
\* the lines of the earlier month-rows come the title and the weekday line.
BodyLineNo(q, k) == AfterRow(q) + 3 + k

\* C27: in the year view every day 1..last of every month is printed in
\* the column block of its month, in the row and column of its week: no
\* line with a day is lost when the three grids of a month-row are joined.
C27_NoDayDropped ==
    YearViewDone =>
        \A m \in 1..12 : \A d \in 1..GregorianLast(year, m) :
            LET n == BodyLineNo(QuarterOf(m), DayRow(m, d))
                at == (22 * BlockOf(m)) + (3 * DayCol(m, d))
            IN  /\ n < AfterRow(QuarterOf(m) + 1)
                /\ n <= Len(OutLines)
                /\ SubSeq(Visible(OutLines[n]), at + 1, at + 3) = DayCell(d)

\* C27 witness: a year whose first month-row is joined from a grid of 7
\* lines and two of 8, so that a line of January and of March is lost.
C27_Witness ==
    /\ YearViewDone
    /\ Len(format_month(year, 2, FALSE, today)) = 7
    /\ Len(format_month(year, 1, FALSE, today)) = 8
    /\ Len(body[1]) = 7


----------------------------------------------------------------------------
(* uniqr: the lines run writes.                                             *)

\* The lines of the input, each with its terminator when it has one.
InputLines == read_lines(file_in.bytes, <<>>)

\* A line without its terminator.
Strip(l) == IF l # <<>> /\ l[Len(l)] = NL THEN SubSeq(l, 1, Len(l) - 1) ELSE l

\* The positions where a maximal run of equal adjacent lines starts.
RunStarts(lines) ==
    {i \in 1..Len(lines) : i = 1 \/ Strip(lines[i]) # Strip(lines[i - 1])}

\* The members of a set of positions, ascending.
Ascending(S) ==
    [k \in 1..Cardinality(S) |-> CHOOSE i \in S : Cardinality({j \in S : j < i}) = k - 1]

\* The maximal runs in input order: the first line of each and its length.
Runs(lines) ==
    LET starts == Ascending(RunStarts(lines))
        stop(k) == IF k = Len(starts) THEN Len(lines) + 1 ELSE starts[k + 1]
    IN  [k \in 1..Len(starts) |->
            [first |-> lines[starts[k]], len |-> stop(k) - starts[k]]]

\* What is written for one run.
RunOutput(flg, r) ==
    IF flg THEN pad4(to_string(r.len)) \o <<" ">> \o r.first ELSE r.first

RECURSIVE SumLen(_)
SumLen(rs) == IF rs = <<>> THEN 0 ELSE Head(rs).len + SumLen(Tail(rs))

\* C28: when run has ended, standard output holds one line for each maximal
\* run of adjacent input lines that are equal without their terminator, in
\* input order; each is the first line of its run, preceded by the length of
\* the run when the count option is set; the lengths sum to the number of
\* input lines, no two consecutive output lines are equal, and an empty input
\* writes nothing.
C28_OneLinePerRun ==
    pc = "uniq_done" =>
        LET rs == Runs(InputLines)
            out == read_lines(stdout, <<>>)
        IN  /\ stdout = concat([k \in 1..Len(rs) |-> RunOutput(count_flg, rs[k])])
            /\ Len(out) = Len(rs)
            /\ \A k \in 1..Len(rs) : out[k] = RunOutput(count_flg, rs[k])
            /\ SumLen(rs) = Len(InputLines)
            /\ \A k \in 1..(Len(out) - 1) : Strip(out[k]) # Strip(out[k + 1])
            /\ (file_in.bytes = <<>> => stdout = <<>>)

C28_Witness ==
    /\ pc = "uniq_done"
    /\ count_flg
    /\ file_in.bytes = <<"a", NL, "a", NL, "b">>
    /\ stdout = <<" ", " ", " ", "2", " ", "a", NL, " ", " ", " ", "1", " ", "b">>

====
